---- MODULE Spec2Model ----
(***************************************************************************)
(* Consensus-parameter resolution of src/chainparams.cpp: the three        *)
(* network parameter sets (main, test, regtest), the regtest-only          *)
(* mutators, the Equihash parameter lookup and the founders-reward address *)
(* rotation.                                                               *)
(***************************************************************************)
EXTENDS Integers, Sequences, FiniteSets, TLC

(***************************************************************************)
(* Bounds of the model.                                                    *)
(***************************************************************************)
\* number of mutator calls explored in one run of the process
MaxCalls == 2
\* largest activation height handed to UpdateNetworkUpgradeParameters
MaxActHeight == 2
\* largest founders-reward address list of the generic parameter sets
MaxListSize == 3
\* largest last-founders-reward height of the generic parameter sets
MaxLastHeight == 5
\* largest raw height looked up on the generic parameter sets
MaxQueryHeight == 10
\* full rotations of the successor list that the looked-up heights span
MaxCycles == 2
\* number of reader threads
MaxReaders == 2

(***************************************************************************)
(* Consensus::UpgradeIndex (consensus/params.h), in deployment order.      *)
(***************************************************************************)
BASE_SPROUT == 0
UPGRADE_TESTDUMMY == 1
UPGRADE_OVERWINTER == 2
UPGRADE_SAPLING == 3
UPGRADE_YCASH == 4
UPGRADE_BLOSSOM == 5
UPGRADE_HEARTWOOD == 6
UPGRADE_CANOPY == 7
UPGRADE_NU5 == 8
UPGRADE_ZFUTURE == 9
MAX_NETWORK_UPGRADES == 10

UpgradeIndex == BASE_SPROUT .. (MAX_NETWORK_UPGRADES - 1)

\* Consensus::NetworkUpgrade sentinels
ALWAYS_ACTIVE == 0
NO_ACTIVATION_HEIGHT == -1

\* EquihashInfo::DEFAULT_PARAMS, "use the network default"
DEFAULT_PARAMS == 0

\* Consensus::FundingStreamIndex
FIRST_FUNDING_STREAM == 0
MAX_FUNDING_STREAMS == 3

Networks == {"main", "test", "regtest"}

Upgrade(version, height) ==
    [nProtocolVersion |-> version, nActivationHeight |-> height]

(***************************************************************************)
(* The upgrade schedules the three constructors build.                     *)
(***************************************************************************)
\* faulty variant: NU5 given an activation height on main
MainUpgrades_WithNU5 ==
    [idx \in UpgradeIndex |->
        CASE idx = BASE_SPROUT        -> Upgrade(170002, ALWAYS_ACTIVE)
          [] idx = UPGRADE_TESTDUMMY  -> Upgrade(170002, NO_ACTIVATION_HEIGHT)
          [] idx = UPGRADE_OVERWINTER -> Upgrade(170005, 347500)
          [] idx = UPGRADE_SAPLING    -> Upgrade(170007, 419200)
          [] idx = UPGRADE_YCASH      -> Upgrade(270007, 570000)
          [] idx = UPGRADE_BLOSSOM    -> Upgrade(270009, 1100000)
          [] idx = UPGRADE_HEARTWOOD  -> Upgrade(270011, 1100003)
          [] idx = UPGRADE_CANOPY     -> Upgrade(270013, 1100006)
          [] idx = UPGRADE_NU5        -> Upgrade(270015, 1100009)
          [] idx = UPGRADE_ZFUTURE    -> Upgrade(2147483647, NO_ACTIVATION_HEIGHT)]

MainUpgrades ==
    [idx \in UpgradeIndex |->
        CASE idx = BASE_SPROUT        -> Upgrade(170002, ALWAYS_ACTIVE)
          [] idx = UPGRADE_TESTDUMMY  -> Upgrade(170002, NO_ACTIVATION_HEIGHT)
          [] idx = UPGRADE_OVERWINTER -> Upgrade(170005, 347500)
          [] idx = UPGRADE_SAPLING    -> Upgrade(170007, 419200)
          [] idx = UPGRADE_YCASH      -> Upgrade(270007, 570000)
          [] idx = UPGRADE_BLOSSOM    -> Upgrade(270009, 1100000)
          [] idx = UPGRADE_HEARTWOOD  -> Upgrade(270011, 1100003)
          [] idx = UPGRADE_CANOPY     -> Upgrade(270013, 1100006)
          [] idx = UPGRADE_NU5        -> Upgrade(270015, NO_ACTIVATION_HEIGHT)
          [] idx = UPGRADE_ZFUTURE    -> Upgrade(2147483647, NO_ACTIVATION_HEIGHT)]

\* faulty variant: Blossom given a height below the Ycash fork on test
TestNetUpgrades_BlossomEarly ==
    [idx \in UpgradeIndex |->
        CASE idx = BASE_SPROUT        -> Upgrade(170002, ALWAYS_ACTIVE)
          [] idx = UPGRADE_TESTDUMMY  -> Upgrade(170002, NO_ACTIVATION_HEIGHT)
          [] idx = UPGRADE_OVERWINTER -> Upgrade(170003, 207500)
          [] idx = UPGRADE_SAPLING    -> Upgrade(170007, 280000)
          [] idx = UPGRADE_YCASH      -> Upgrade(270007, 510248)
          [] idx = UPGRADE_BLOSSOM    -> Upgrade(270008, 500000)
          [] idx = UPGRADE_HEARTWOOD  -> Upgrade(270010, 661622)
          [] idx = UPGRADE_CANOPY     -> Upgrade(270012, 661634)
          [] idx = UPGRADE_NU5        -> Upgrade(270014, NO_ACTIVATION_HEIGHT)
          [] idx = UPGRADE_ZFUTURE    -> Upgrade(2147483647, NO_ACTIVATION_HEIGHT)]

TestNetUpgrades ==
    [idx \in UpgradeIndex |->
        CASE idx = BASE_SPROUT        -> Upgrade(170002, ALWAYS_ACTIVE)
          [] idx = UPGRADE_TESTDUMMY  -> Upgrade(170002, NO_ACTIVATION_HEIGHT)
          [] idx = UPGRADE_OVERWINTER -> Upgrade(170003, 207500)
          [] idx = UPGRADE_SAPLING    -> Upgrade(170007, 280000)
          [] idx = UPGRADE_YCASH      -> Upgrade(270007, 510248)
          [] idx = UPGRADE_BLOSSOM    -> Upgrade(270008, 661610)
          [] idx = UPGRADE_HEARTWOOD  -> Upgrade(270010, 661622)
          [] idx = UPGRADE_CANOPY     -> Upgrade(270012, 661634)
          [] idx = UPGRADE_NU5        -> Upgrade(270014, NO_ACTIVATION_HEIGHT)
          [] idx = UPGRADE_ZFUTURE    -> Upgrade(2147483647, NO_ACTIVATION_HEIGHT)]

RegTestUpgrades ==
    [idx \in UpgradeIndex |->
        CASE idx = BASE_SPROUT        -> Upgrade(170002, ALWAYS_ACTIVE)
          [] idx = UPGRADE_TESTDUMMY  -> Upgrade(170002, NO_ACTIVATION_HEIGHT)
          [] idx = UPGRADE_OVERWINTER -> Upgrade(170003, NO_ACTIVATION_HEIGHT)
          [] idx = UPGRADE_SAPLING    -> Upgrade(170006, NO_ACTIVATION_HEIGHT)
          [] idx = UPGRADE_YCASH      -> Upgrade(270007, NO_ACTIVATION_HEIGHT)
          [] idx = UPGRADE_BLOSSOM    -> Upgrade(270008, NO_ACTIVATION_HEIGHT)
          [] idx = UPGRADE_HEARTWOOD  -> Upgrade(270010, NO_ACTIVATION_HEIGHT)
          [] idx = UPGRADE_CANOPY     -> Upgrade(270012, NO_ACTIVATION_HEIGHT)
          [] idx = UPGRADE_NU5        -> Upgrade(270014, NO_ACTIVATION_HEIGHT)
          [] idx = UPGRADE_ZFUTURE    -> Upgrade(2147483647, NO_ACTIVATION_HEIGHT)]

\* strNetworkID and the network-wide Equihash defaults of each constructor
MainEquihash == [nEquihashN |-> 200, nEquihashK |-> 9]

TestNetEquihash == [nEquihashN |-> 200, nEquihashK |-> 9]

RegTestEquihash == [nEquihashN |-> 48, nEquihashK |-> 5]

DefaultEquihash(net) ==
    CASE net = "main"    -> MainEquihash
      [] net = "test"    -> TestNetEquihash
      [] net = "regtest" -> RegTestEquihash

\* the PoW fields of the main and test constructors that UpdateRegtestPow
\* has counterparts for
MainPow ==
    [nPowMaxAdjustDown |-> 32, nPowMaxAdjustUp |-> 16,
     powLimit |-> "0007ff", fPowNoRetargeting |-> FALSE]

TestNetPow ==
    [nPowMaxAdjustDown |-> 32, nPowMaxAdjustUp |-> 16,
     powLimit |-> "07ff", fPowNoRetargeting |-> FALSE]

\* the PoW fields of the regtest constructor that UpdateRegtestPow rewrites
RegTestPow ==
    [nPowMaxAdjustDown |-> 0, nPowMaxAdjustUp |-> 0,
     powLimit |-> "0f0f", fPowNoRetargeting |-> TRUE]

ConstructedPow ==
    [net \in Networks |->
        CASE net = "main"    -> MainPow
          [] net = "test"    -> TestNetPow
          [] net = "regtest" -> RegTestPow]

(***************************************************************************)
(* Epoch resolution (consensus/upgrades.cpp).                              *)
(***************************************************************************)
\* faulty variant: the height comparison turned around
NetworkUpgradeActive_Flipped(upgrades, nHeight, idx) ==
    /\ upgrades[idx].nActivationHeight # NO_ACTIVATION_HEIGHT
    /\ nHeight <= upgrades[idx].nActivationHeight

\* an upgrade is active at nHeight when it has an activation height and the
\* height has reached it
NetworkUpgradeActive(upgrades, nHeight, idx) ==
    /\ upgrades[idx].nActivationHeight # NO_ACTIVATION_HEIGHT
    /\ nHeight >= upgrades[idx].nActivationHeight

RECURSIVE EpochScan(_, _, _)
EpochScan(upgrades, nHeight, idx) ==
    IF idx <= BASE_SPROUT THEN BASE_SPROUT
    ELSE IF NetworkUpgradeActive(upgrades, nHeight, idx) THEN idx
    ELSE EpochScan(upgrades, nHeight, idx - 1)

\* scans the table from the last upgrade down to the first active one
CurrentEpoch(nHeight, upgrades) ==
    EpochScan(upgrades, nHeight, MAX_NETWORK_UPGRADES - 1)

(***************************************************************************)
(* State.                                                                  *)
(***************************************************************************)
VARIABLES
    vUpgrades,            \* consensus.vUpgrades of mainParams, testNetParams, regTestParams
    EquihashUpgradeInfo,  \* the per-upgrade Equihash table shared by all networks
    vFundingStreams,      \* consensus.vFundingStreams of each parameter set
    pow,                  \* the PoW fields of each parameter set
    aborted,              \* an assert has failed and ended the process
    nCalls,               \* mutator calls made so far
    pCurrentParams,       \* the parameter set Params() hands out, "null" before selection
    mapArgs,              \* the command-line arguments SelectParams looks at
    fZIP209Enabled,       \* fZIP209Enabled of each parameter set
    fCoinbaseMustBeShielded,  \* consensus.fCoinbaseMustBeShielded of each parameter set
    lastSelected,         \* chain name of the last SelectParams call that returned
    lastOp,               \* the last selection or Params call and its outcome
    frCfg,                \* parameter set the founders-reward lookups run on
    frPrev,               \* the lookup before the last one
    frLast,               \* the last founders-reward lookup: height and outcome
    frScript,             \* the script lookup, when the last lookup was one
    frIndex,              \* the accessor call, when the last call was one
    readers,              \* each reader thread: the call it is in, if any
    writer,               \* the thread overriding Equihash parameters
    lastRead              \* the last call a reader thread completed

procVars == <<vUpgrades, EquihashUpgradeInfo, vFundingStreams, pow, aborted, nCalls>>

selVars == <<pCurrentParams, mapArgs, fZIP209Enabled, fCoinbaseMustBeShielded,
             lastSelected, lastOp>>

frVars == <<frCfg, frPrev, frLast, frScript, frIndex>>

concVars == <<readers, writer, lastRead>>

vars == <<procVars, selVars, frVars, concVars>>

(***************************************************************************)
(* Inputs of the mutators.                                                 *)
(***************************************************************************)
\* activation heights: a negative height, both sentinels, and small heights
ActHeights == {-2, NO_ACTIVATION_HEIGHT, ALWAYS_ACTIVE} \cup (1 .. MaxActHeight)

\* upgrade indices a caller passes: the two rejected ones (the base and the
\* out-of-range MAX_NETWORK_UPGRADES), the first and the last accepted one, and
\* the upgrades the lookups branch on
IdxInputs ==
    {BASE_SPROUT, UPGRADE_TESTDUMMY, UPGRADE_OVERWINTER, UPGRADE_YCASH,
     UPGRADE_BLOSSOM, UPGRADE_ZFUTURE, MAX_NETWORK_UPGRADES}

EquihashNInputs == {DEFAULT_PARAMS, 96}

EquihashKInputs == {DEFAULT_PARAMS, 3}

FundingStreamIdxInputs == (FIRST_FUNDING_STREAM - 1) .. MAX_FUNDING_STREAMS

FundingStreamInputs == {[startHeight |-> 1, endHeight |-> 2]}

PowInputs ==
    {[nPowMaxAdjustDown |-> 32, nPowMaxAdjustUp |-> 16,
      powLimit |-> "07ff", fPowNoRetargeting |-> FALSE]}

NoFundingStream == [startHeight |-> -1, endHeight |-> -1]

(***************************************************************************)
(* Construction of the three static parameter sets.                        *)
(***************************************************************************)
ConstructedUpgrades ==
    [net \in Networks |->
        CASE net = "main"    -> MainUpgrades
          [] net = "test"    -> TestNetUpgrades
          [] net = "regtest" -> RegTestUpgrades]

\* the table as built: every upgrade defers to the network default, the base
\* entry being any of the four sentinel/explicit combinations
EquihashInitTables ==
    {[idx \in UpgradeIndex |->
        IF idx = BASE_SPROUT THEN [N |-> n, K |-> k]
        ELSE [N |-> DEFAULT_PARAMS, K |-> DEFAULT_PARAMS]] :
            n \in {DEFAULT_PARAMS, 200}, k \in {DEFAULT_PARAMS, 9}}

\* fZIP209Enabled: set by the main and test constructors, left at its default
\* by the regtest constructor
ConstructedZIP209 ==
    [net \in Networks |-> net # "regtest"]

\* consensus.fCoinbaseMustBeShielded as each constructor sets it
ConstructedCoinbaseMustBeShielded ==
    [net \in Networks |-> net # "regtest"]

\* no selection or Params call made yet
\* the threads reading the parameters
Readers == 1 .. MaxReaders

NoEntry == [N |-> -1, K |-> -1]

\* a reader outside any call
IdleReader ==
    [pc |-> "idle", fn |-> "none", net |-> "none", nHeight |-> -1, n |-> 0,
     start |-> NoEntry, overlap |-> FALSE]

\* the writer outside UpdateEquihashUpgradeParameters
IdleWriter == [pc |-> "idle", idx |-> -1, k |-> 0]

NoRead ==
    [fn |-> "none", net |-> "none", nHeight |-> -1, n |-> 0, k |-> 0,
     start |-> NoEntry, end |-> NoEntry, overlap |-> FALSE, ret |-> "none"]

NoOp == [op |-> "none", chain |-> "none", outcome |-> "none", ret |-> "null"]

ProcInit ==
    /\ vUpgrades = ConstructedUpgrades
    /\ EquihashUpgradeInfo \in EquihashInitTables
    /\ vFundingStreams =
          [net \in Networks |->
              [i \in FIRST_FUNDING_STREAM .. (MAX_FUNDING_STREAMS - 1) |-> NoFundingStream]]
    /\ pow = ConstructedPow
    /\ aborted = FALSE
    /\ nCalls = 0
    /\ pCurrentParams = "null"
    /\ fZIP209Enabled = ConstructedZIP209
    /\ fCoinbaseMustBeShielded = ConstructedCoinbaseMustBeShielded
    /\ lastSelected = "none"
    /\ lastOp = NoOp
    /\ readers = [r \in Readers |-> IdleReader]
    /\ writer = IdleWriter
    /\ lastRead = NoRead

(***************************************************************************)
(* Equihash parameter lookup.                                              *)
(***************************************************************************)
\* faulty variant: the regtest bypass left out
EquihashN_NoBypass(net, nHeight) ==
    LET n == EquihashUpgradeInfo[CurrentEpoch(nHeight, vUpgrades[net])].N
    IN  IF n = DEFAULT_PARAMS THEN DefaultEquihash(net).nEquihashN ELSE n

EquihashN(net, nHeight) ==
    IF net = "regtest" THEN DefaultEquihash(net).nEquihashN
    ELSE LET n == EquihashUpgradeInfo[CurrentEpoch(nHeight, vUpgrades[net])].N
         IN  IF n = DEFAULT_PARAMS THEN DefaultEquihash(net).nEquihashN ELSE n

\* faulty variant: K inherits the default whenever N does
EquihashK_Coupled(net, nHeight) ==
    IF net = "regtest" THEN DefaultEquihash(net).nEquihashK
    ELSE LET e == EquihashUpgradeInfo[CurrentEpoch(nHeight, vUpgrades[net])]
         IN  IF e.N = DEFAULT_PARAMS THEN DefaultEquihash(net).nEquihashK ELSE e.K

EquihashK(net, nHeight) ==
    IF net = "regtest" THEN DefaultEquihash(net).nEquihashK
    ELSE LET k == EquihashUpgradeInfo[CurrentEpoch(nHeight, vUpgrades[net])].K
         IN  IF k = DEFAULT_PARAMS THEN DefaultEquihash(net).nEquihashK ELSE k

(***************************************************************************)
(* Mutators. Each free function forwards to regTestParams.                 *)
(***************************************************************************)
\* faulty variant: the forwarder writes mainParams instead of regTestParams
UpdateNetworkUpgradeParameters_OnMain(idx, nActivationHeight) ==
    /\ ~aborted
    /\ nCalls < MaxCalls
    /\ nCalls' = nCalls + 1
    /\ IF idx > BASE_SPROUT /\ idx < MAX_NETWORK_UPGRADES
       THEN /\ vUpgrades' = [vUpgrades EXCEPT
                  !["main"][idx].nActivationHeight = nActivationHeight]
            /\ UNCHANGED aborted
       ELSE /\ aborted' = TRUE
            /\ UNCHANGED vUpgrades
    /\ UNCHANGED <<EquihashUpgradeInfo, vFundingStreams, pow, frVars, selVars, concVars>>

\* faulty variant: the base index passes the assert
UpdateNetworkUpgradeParameters_BaseAllowed(idx, nActivationHeight) ==
    /\ ~aborted
    /\ nCalls < MaxCalls
    /\ nCalls' = nCalls + 1
    /\ IF idx >= BASE_SPROUT /\ idx < MAX_NETWORK_UPGRADES
       THEN /\ vUpgrades' = [vUpgrades EXCEPT
                  !["regtest"][idx].nActivationHeight = nActivationHeight]
            /\ UNCHANGED aborted
       ELSE /\ aborted' = TRUE
            /\ UNCHANGED vUpgrades
    /\ UNCHANGED <<EquihashUpgradeInfo, vFundingStreams, pow, frVars, selVars, concVars>>

\* faulty variant: the whole entry is replaced, its protocol version reset
UpdateNetworkUpgradeParameters_ResetsVersion(idx, nActivationHeight) ==
    /\ ~aborted
    /\ nCalls < MaxCalls
    /\ nCalls' = nCalls + 1
    /\ IF idx > BASE_SPROUT /\ idx < MAX_NETWORK_UPGRADES
       THEN /\ vUpgrades' = [vUpgrades EXCEPT
                  !["regtest"][idx] = Upgrade(0, nActivationHeight)]
            /\ UNCHANGED aborted
       ELSE /\ aborted' = TRUE
            /\ UNCHANGED vUpgrades
    /\ UNCHANGED <<EquihashUpgradeInfo, vFundingStreams, pow, frVars, selVars, concVars>>

UpdateNetworkUpgradeParameters(idx, nActivationHeight) ==
    /\ ~aborted
    /\ nCalls < MaxCalls
    /\ nCalls' = nCalls + 1
    /\ IF idx > BASE_SPROUT /\ idx < MAX_NETWORK_UPGRADES
       THEN /\ vUpgrades' = [vUpgrades EXCEPT
                  !["regtest"][idx].nActivationHeight = nActivationHeight]
            /\ UNCHANGED aborted
       ELSE /\ aborted' = TRUE
            /\ UNCHANGED vUpgrades
    /\ UNCHANGED <<EquihashUpgradeInfo, vFundingStreams, pow, frVars, selVars, concVars>>

\* faulty variant: n stored as K and k as N
UpdateEquihashUpgradeParameters_SwapsNK(idx, n, k) ==
    /\ ~aborted
    /\ nCalls < MaxCalls
    /\ nCalls' = nCalls + 1
    /\ IF idx > BASE_SPROUT /\ idx < MAX_NETWORK_UPGRADES
       THEN /\ EquihashUpgradeInfo' = [EquihashUpgradeInfo EXCEPT
                  ![idx] = [N |-> k, K |-> n]]
            /\ UNCHANGED aborted
       ELSE /\ aborted' = TRUE
            /\ UNCHANGED EquihashUpgradeInfo
    /\ UNCHANGED <<vUpgrades, vFundingStreams, pow, frVars, selVars, concVars>>

UpdateEquihashUpgradeParameters(idx, n, k) ==
    /\ ~aborted
    /\ nCalls < MaxCalls
    /\ nCalls' = nCalls + 1
    /\ IF idx > BASE_SPROUT /\ idx < MAX_NETWORK_UPGRADES
       THEN /\ EquihashUpgradeInfo' = [EquihashUpgradeInfo EXCEPT
                  ![idx] = [N |-> n, K |-> k]]
            /\ UNCHANGED aborted
       ELSE /\ aborted' = TRUE
            /\ UNCHANGED EquihashUpgradeInfo
    /\ UNCHANGED <<vUpgrades, vFundingStreams, pow, frVars, selVars, concVars>>

\* faulty variant: the upper bound of the assert off by one
UpdateFundingStreamParameters_OffByOne(idx, fs) ==
    /\ ~aborted
    /\ nCalls < MaxCalls
    /\ nCalls' = nCalls + 1
    /\ IF idx >= FIRST_FUNDING_STREAM /\ idx <= MAX_FUNDING_STREAMS
       THEN /\ vFundingStreams' =
                  [vFundingStreams EXCEPT !["regtest"] =
                      [i \in DOMAIN vFundingStreams["regtest"] |->
                          IF i = idx THEN fs ELSE vFundingStreams["regtest"][i]]]
            /\ UNCHANGED aborted
       ELSE /\ aborted' = TRUE
            /\ UNCHANGED vFundingStreams
    /\ UNCHANGED <<vUpgrades, EquihashUpgradeInfo, pow, frVars, selVars, concVars>>

UpdateFundingStreamParameters(idx, fs) ==
    /\ ~aborted
    /\ nCalls < MaxCalls
    /\ nCalls' = nCalls + 1
    /\ IF idx >= FIRST_FUNDING_STREAM /\ idx < MAX_FUNDING_STREAMS
       THEN /\ vFundingStreams' = [vFundingStreams EXCEPT !["regtest"][idx] = fs]
            /\ UNCHANGED aborted
       ELSE /\ aborted' = TRUE
            /\ UNCHANGED vFundingStreams
    /\ UNCHANGED <<vUpgrades, EquihashUpgradeInfo, pow, frVars, selVars, concVars>>

\* faulty variant: the fields of the selected parameter set are written
UpdateRegtestPow_OnCurrent(p) ==
    /\ ~aborted
    /\ nCalls < MaxCalls
    /\ nCalls' = nCalls + 1
    /\ pow' = [pow EXCEPT ![IF pCurrentParams = "null" THEN "regtest"
                             ELSE pCurrentParams] = p]
    /\ UNCHANGED <<vUpgrades, EquihashUpgradeInfo, vFundingStreams, aborted, frVars, selVars, concVars>>

UpdateRegtestPow(p) ==
    /\ ~aborted
    /\ nCalls < MaxCalls
    /\ nCalls' = nCalls + 1
    /\ pow' = [pow EXCEPT !["regtest"] = p]
    /\ UNCHANGED <<vUpgrades, EquihashUpgradeInfo, vFundingStreams, aborted, frVars, selVars, concVars>>

(***************************************************************************)
(* Selection of the current parameter set.                                 *)
(***************************************************************************)
\* chain names a caller passes: the three known ones and an unknown one
ChainInputs == {"main", "test", "regtest", "dev"}

\* the command lines: each of the two regtest switches present or absent
MapArgsInputs == SUBSET {"-regtestshieldcoinbase", "-developersetpoolsizezero"}

\* SelectBaseParams accepts the three known chain names and throws on others
BaseChainKnown(chain) == chain \in {"main", "test", "regtest"}

\* faulty variant: an unknown name falls through to the main parameter set
ParamsOfChain_DefaultsToMain(chain) ==
    CASE chain = "test"    -> "test"
      [] chain = "regtest" -> "regtest"
      [] OTHER             -> "main"

\* faulty variant: the test and regtest names bound to each other's instance
ParamsOfChain_Swapped(chain) ==
    CASE chain = "main"    -> "main"
      [] chain = "test"    -> "regtest"
      [] chain = "regtest" -> "test"
      [] OTHER             -> "throw"

\* Params(chain): the static instance a chain name stands for, "throw" when
\* the name is unknown and runtime_error is thrown
ParamsOfChain(chain) ==
    CASE chain = "main"    -> "main"
      [] chain = "test"    -> "test"
      [] chain = "regtest" -> "regtest"
      [] OTHER             -> "throw"

\* faulty variant: the switches are applied whichever network is selected
SelectParams_AnyNetwork(network) ==
    /\ ~aborted
    /\ IF ~BaseChainKnown(network) \/ ParamsOfChain(network) = "throw"
       THEN /\ lastOp' = [op |-> "SelectParams", chain |-> network,
                          outcome |-> "unknown_chain", ret |-> "null"]
            /\ UNCHANGED <<pCurrentParams, fZIP209Enabled,
                           fCoinbaseMustBeShielded, lastSelected>>
       ELSE /\ pCurrentParams' = ParamsOfChain(network)
            /\ fCoinbaseMustBeShielded' =
                  IF "-regtestshieldcoinbase" \in mapArgs
                  THEN [fCoinbaseMustBeShielded EXCEPT !["regtest"] = TRUE]
                  ELSE fCoinbaseMustBeShielded
            /\ fZIP209Enabled' =
                  IF "-developersetpoolsizezero" \in mapArgs
                  THEN [fZIP209Enabled EXCEPT !["regtest"] = TRUE]
                  ELSE fZIP209Enabled
            /\ lastSelected' = network
            /\ lastOp' = [op |-> "SelectParams", chain |-> network,
                          outcome |-> "ok", ret |-> ParamsOfChain(network)]
    /\ UNCHANGED <<mapArgs, procVars, frVars, concVars>>

\* SelectParams(network): an exception leaves before the pointer is assigned
SelectParams(network) ==
    /\ ~aborted
    /\ IF ~BaseChainKnown(network) \/ ParamsOfChain(network) = "throw"
       THEN /\ lastOp' = [op |-> "SelectParams", chain |-> network,
                          outcome |-> "unknown_chain", ret |-> "null"]
            /\ UNCHANGED <<pCurrentParams, fZIP209Enabled,
                           fCoinbaseMustBeShielded, lastSelected>>
       ELSE /\ pCurrentParams' = ParamsOfChain(network)
            /\ fCoinbaseMustBeShielded' =
                  IF network = "regtest" /\ "-regtestshieldcoinbase" \in mapArgs
                  THEN [fCoinbaseMustBeShielded EXCEPT !["regtest"] = TRUE]
                  ELSE fCoinbaseMustBeShielded
            /\ fZIP209Enabled' =
                  IF network = "regtest" /\ "-developersetpoolsizezero" \in mapArgs
                  THEN [fZIP209Enabled EXCEPT !["regtest"] = TRUE]
                  ELSE fZIP209Enabled
            /\ lastSelected' = network
            /\ lastOp' = [op |-> "SelectParams", chain |-> network,
                          outcome |-> "ok", ret |-> ParamsOfChain(network)]
    /\ UNCHANGED <<mapArgs, procVars, frVars, concVars>>

\* Params(): asserts that a parameter set has been selected
Params ==
    /\ ~aborted
    /\ IF pCurrentParams = "null"
       THEN /\ aborted' = TRUE
            /\ lastOp' = [op |-> "Params", chain |-> "none",
                          outcome |-> "abort", ret |-> "null"]
       ELSE /\ UNCHANGED aborted
            /\ lastOp' = [op |-> "Params", chain |-> "none",
                          outcome |-> "ok", ret |-> pCurrentParams]
    /\ UNCHANGED <<vUpgrades, EquihashUpgradeInfo, vFundingStreams, pow, nCalls,
                   pCurrentParams, mapArgs, fZIP209Enabled, fCoinbaseMustBeShielded,
                   lastSelected, frVars, concVars>>

\* a direct call of Params(chain): hands out an instance or throws
ParamsChain(chain) ==
    /\ ~aborted
    /\ lastOp' = [op |-> "ParamsChain", chain |-> chain,
                  outcome |-> IF ParamsOfChain(chain) = "throw"
                              THEN "unknown_chain" ELSE "ok",
                  ret |-> IF ParamsOfChain(chain) = "throw"
                          THEN "null" ELSE ParamsOfChain(chain)]
    /\ UNCHANGED <<procVars, pCurrentParams, mapArgs, fZIP209Enabled,
                   fCoinbaseMustBeShielded, lastSelected, frVars, concVars>>

(***************************************************************************)
(* Founders-reward address rotation.                                       *)
(***************************************************************************)
\* Consensus::BLOSSOM_POW_TARGET_SPACING_RATIO: old over new target spacing
BLOSSOM_POW_TARGET_SPACING_RATIO == 2

\* the post-fork addressChangeInterval: "every one month, approx"
YcashAddressChangeInterval == 17917

\* C++ integer division truncates toward zero
CDiv(a, b) == IF a >= 0 THEN a \div b ELSE -((-a) \div b)

\* entry i of vFoundersRewardAddress: a Zcash-encoded 2-of-3 multisig address
LegacyAddress(i) ==
    [format |-> "zec", type |-> "script", list |-> "legacy", pos |-> i]

\* entry i of vYcashFoundersRewardAddress: a Ycash-encoded plain address
YcashAddress(i) ==
    [format |-> "yec", type |-> "key", list |-> "ycash", pos |-> i]

NoAddress == [format |-> "none", type |-> "none", list |-> "none", pos |-> -1]

\* KeyIO::ZecToYec re-encodes a Zcash address under the Ycash prefixes: the
\* destination it names is kept, the encoding changes
ZecToYec(addr) ==
    IF addr.format = "zec" THEN [addr EXCEPT !.format = "yec"] ELSE NoAddress

Aborted(regime, nHeight) ==
    [status |-> "abort", regime |-> regime, nHeight |-> nHeight,
     addressChangeInterval |-> 0, i |-> -1, address |-> NoAddress]

\* faulty variant: the quotient is not added back onto the activation height
FounderAddressAdjustedHeight_NoBase(upgrades, nHeight) ==
    IF NetworkUpgradeActive(upgrades, nHeight, UPGRADE_BLOSSOM)
    THEN CDiv(nHeight - upgrades[UPGRADE_BLOSSOM].nActivationHeight,
              BLOSSOM_POW_TARGET_SPACING_RATIO)
    ELSE nHeight

\* zip208 FounderAddressAdjustedHeight: the value nHeight holds when the range
\* assert is reached
FounderAddressAdjustedHeight(upgrades, nHeight) ==
    LET blossomActive == NetworkUpgradeActive(upgrades, nHeight, UPGRADE_BLOSSOM)
        blossomActivationHeight == upgrades[UPGRADE_BLOSSOM].nActivationHeight
    IN  IF blossomActive
        THEN blossomActivationHeight +
             CDiv(nHeight - blossomActivationHeight, BLOSSOM_POW_TARGET_SPACING_RATIO)
        ELSE nHeight

\* faulty variant: the interval rounded up from maxHeight / size
LegacyAddressChangeInterval_Ceil(preBlossomMaxHeight, size) ==
    (preBlossomMaxHeight + size - 1) \div size

\* the pre-fork addressChangeInterval
LegacyAddressChangeInterval(preBlossomMaxHeight, size) ==
    (preBlossomMaxHeight + size) \div size

\* faulty variant: the post-fork index counted from height 0
YcashAddressIndex_FromGenesis(upgrades, nHeight) ==
    IF nHeight < 0 THEN -1 ELSE nHeight \div YcashAddressChangeInterval

\* faulty variant: the difference taken the other way round
YcashAddressIndex_Reversed(upgrades, nHeight) ==
    LET diff == upgrades[UPGRADE_YCASH].nActivationHeight - nHeight
    IN  IF diff < 0 THEN -1 ELSE diff \div YcashAddressChangeInterval

\* the post-fork index before it is reduced modulo the list size; -1 stands
\* for the huge size_t a negative difference would convert to
YcashAddressIndex(upgrades, nHeight) ==
    LET diff == nHeight - upgrades[UPGRADE_YCASH].nActivationHeight
    IN  IF diff < 0 THEN -1 ELSE diff \div YcashAddressChangeInterval

\* faulty variant: the lower bound of the range assert made inclusive
HeightInRewardPeriod_FromZero(nHeight, preBlossomMaxHeight) ==
    nHeight >= 0 /\ nHeight <= preBlossomMaxHeight

\* the condition of the range assert
HeightInRewardPeriod(nHeight, preBlossomMaxHeight) ==
    nHeight > 0 /\ nHeight <= preBlossomMaxHeight

\* cfg: [upgrades, maxHeight, nLegacy, nYcash, legacyType, ycashType] of one
\* parameter set, maxHeight being consensus.GetLastFoundersRewardBlockHeight(0)
\* and the two types the kind of address the lists hold
GetFoundersRewardAddressAtHeight(cfg, nHeight) ==
    IF ~NetworkUpgradeActive(cfg.upgrades, nHeight, UPGRADE_YCASH)
    THEN LET preBlossomMaxHeight == cfg.maxHeight
             adjHeight == FounderAddressAdjustedHeight(cfg.upgrades, nHeight)
         IN  IF ~HeightInRewardPeriod(adjHeight, preBlossomMaxHeight)
             THEN Aborted("legacy", adjHeight)
             ELSE LET addressChangeInterval ==
                          LegacyAddressChangeInterval(preBlossomMaxHeight, cfg.nLegacy)
                      i == adjHeight \div addressChangeInterval
                  IN  \* an index past the end of the vector reads out of bounds
                      [status |-> IF i < cfg.nLegacy THEN "ok" ELSE "out_of_range",
                       regime |-> "legacy", nHeight |-> adjHeight,
                       addressChangeInterval |-> addressChangeInterval, i |-> i,
                       address |-> IF i < cfg.nLegacy
                                   THEN ZecToYec([LegacyAddress(i) EXCEPT
                                                     !.type = cfg.legacyType])
                                   ELSE NoAddress]
    ELSE LET i == YcashAddressIndex(cfg.upgrades, nHeight)
         IN  [status |-> IF i >= 0 THEN "ok" ELSE "wrapped",
              regime |-> "ycash", nHeight |-> nHeight,
              addressChangeInterval |-> YcashAddressChangeInterval, i |-> i,
              address |-> IF i >= 0
                          THEN [YcashAddress(i % cfg.nYcash) EXCEPT
                                   !.type = cfg.ycashType]
                          ELSE NoAddress]

IndexAborted == [status |-> "abort", address |-> NoAddress]

\* faulty variant: the legacy entry is returned in its Zcash encoding
GetZcashFoundersRewardAddressAtIndex_Raw(cfg, i) ==
    IF i >= 0 /\ i < cfg.nLegacy
    THEN [status |-> "ok",
          address |-> [LegacyAddress(i) EXCEPT !.type = cfg.legacyType]]
    ELSE IndexAborted

\* entry i of the legacy list, re-encoded; the assert fails outside the list
GetZcashFoundersRewardAddressAtIndex(cfg, i) ==
    IF i >= 0 /\ i < cfg.nLegacy
    THEN [status |-> "ok",
          address |-> ZecToYec([LegacyAddress(i) EXCEPT !.type = cfg.legacyType])]
    ELSE IndexAborted

\* entry i of the successor list; the assert fails outside the list
GetYcashFoundersRewardAddressAtIndex(cfg, i) ==
    IF i >= 0 /\ i < cfg.nYcash
    THEN [status |-> "ok",
          address |-> [YcashAddress(i) EXCEPT !.type = cfg.ycashType]]
    ELSE IndexAborted

(***************************************************************************)
(* Founders-reward script derivation.                                      *)
(***************************************************************************)
\* consensus.GetLastFoundersRewardBlockHeight(nHeight) (consensus/params.cpp):
\* the last reward height, stretched by the spacing ratio beyond the Blossom
\* activation height once Blossom is active at nHeight
GetLastFoundersRewardBlockHeight(cfg, nHeight) ==
    LET blossomActivationHeight == cfg.upgrades[UPGRADE_BLOSSOM].nActivationHeight
    IN  IF NetworkUpgradeActive(cfg.upgrades, nHeight, UPGRADE_BLOSSOM)
        THEN blossomActivationHeight +
             (cfg.maxHeight + 1 - blossomActivationHeight) *
                 BLOSSOM_POW_TARGET_SPACING_RATIO - 1
        ELSE cfg.maxHeight

NoDestination == [kind |-> "none", hash |-> <<>>]

\* KeyIO::DecodeDestination under the Ycash prefixes: a key-hash or a
\* script-hash destination carrying the 160-bit hash the string encodes, or
\* CNoDestination when the string is not a transparent Ycash address
DecodeDestination(addr) ==
    IF addr.format = "yec" /\ addr.type \in {"key", "script"}
    THEN [kind |-> addr.type, hash |-> <<addr.list, addr.pos>>]
    ELSE NoDestination

IsValidDestination(dest) == dest.kind # "none"

IsKeyDestination(dest) == dest.kind = "key"

IsScriptDestination(dest) == dest.kind = "script"

\* CScript() << OP_HASH160 << hash << OP_EQUAL
P2SHScript(hash) == <<"OP_HASH160", hash, "OP_EQUAL">>

\* CScript() << OP_DUP << OP_HASH160 << hash << OP_EQUALVERIFY << OP_CHECKSIG
P2PKHScript(hash) ==
    <<"OP_DUP", "OP_HASH160", hash, "OP_EQUALVERIFY", "OP_CHECKSIG">>

\* ExtractDestination (script/standard.cpp): the destination a standard
\* output script pays to, CNoDestination for any other script
ExtractDestination(script) ==
    IF Len(script) = 3 /\ script[1] = "OP_HASH160" /\ script[3] = "OP_EQUAL"
    THEN [kind |-> "script", hash |-> script[2]]
    ELSE IF Len(script) = 5 /\ script[1] = "OP_DUP" /\ script[2] = "OP_HASH160"
            /\ script[4] = "OP_EQUALVERIFY" /\ script[5] = "OP_CHECKSIG"
    THEN [kind |-> "key", hash |-> script[3]]
    ELSE NoDestination

ScriptAborted(regime, cause) ==
    [status |-> "abort", regime |-> regime, cause |-> cause,
     address |-> NoAddress, dest |-> NoDestination, script |-> <<>>]

ScriptReturned(regime, address, dest, script) ==
    [status |-> "ok", regime |-> regime, cause |-> "none",
     address |-> address, dest |-> dest, script |-> script]

\* faulty variant: pre-fork, the script hash is paid as a key hash
LegacyScript_AsKeyHash(r) ==
    LET address == DecodeDestination(r.address)
    IN  IF ~IsValidDestination(address) THEN ScriptAborted("legacy", "invalid")
        ELSE IF ~IsScriptDestination(address) THEN ScriptAborted("legacy", "not_script")
        ELSE ScriptReturned("legacy", r.address, address, P2PKHScript(address.hash))

\* the part after the address has been resolved and decoded, pre-fork
LegacyScript(r) ==
    LET address == DecodeDestination(r.address)
    IN  IF ~IsValidDestination(address) THEN ScriptAborted("legacy", "invalid")
        ELSE IF ~IsScriptDestination(address) THEN ScriptAborted("legacy", "not_script")
        ELSE ScriptReturned("legacy", r.address, address, P2SHScript(address.hash))

\* faulty variant: post-fork, every valid destination is paid as a key hash
YcashScript_AlwaysP2PKH(r) ==
    LET address == DecodeDestination(r.address)
    IN  IF ~IsValidDestination(address) THEN ScriptAborted("ycash", "invalid")
        ELSE ScriptReturned("ycash", r.address, address, P2PKHScript(address.hash))

\* the part after the address has been resolved and decoded, post-fork
YcashScript(r) ==
    LET address == DecodeDestination(r.address)
    IN  IF ~IsValidDestination(address) THEN ScriptAborted("ycash", "invalid")
        ELSE IF ~(IsKeyDestination(address) \/ IsScriptDestination(address))
        THEN ScriptAborted("ycash", "not_key_or_script")
        ELSE IF IsKeyDestination(address)
        THEN ScriptReturned("ycash", r.address, address, P2PKHScript(address.hash))
        ELSE ScriptReturned("ycash", r.address, address, P2SHScript(address.hash))

GetFoundersRewardScriptAtHeight(cfg, nHeight) ==
    LET r == GetFoundersRewardAddressAtHeight(cfg, nHeight)
    IN  IF ~NetworkUpgradeActive(cfg.upgrades, nHeight, UPGRADE_YCASH)
        THEN IF ~(nHeight > 0 /\
                  nHeight <= GetLastFoundersRewardBlockHeight(cfg, nHeight))
             THEN ScriptAborted("legacy", "height")
             ELSE IF r.status = "abort" THEN ScriptAborted("legacy", "address_height")
             ELSE IF r.status # "ok"
             THEN [ScriptAborted("legacy", "none") EXCEPT !.status = r.status]
             ELSE LegacyScript(r)
        ELSE IF r.status # "ok"
             THEN [ScriptAborted("ycash", "none") EXCEPT !.status = r.status]
             ELSE YcashScript(r)

(***************************************************************************)
(* Parameter sets and heights of the founders-reward lookups.              *)
(***************************************************************************)
\* a regtest-style parameter set: the constructed schedule with the Ycash and
\* Blossom activation heights set, as UpdateNetworkUpgradeParameters sets them
FRConfig(ycashHeight, blossomHeight, maxHeight, nLegacy, nYcash) ==
    [upgrades |-> [RegTestUpgrades EXCEPT
                      ![UPGRADE_YCASH].nActivationHeight = ycashHeight,
                      ![UPGRADE_BLOSSOM].nActivationHeight = blossomHeight],
     maxHeight |-> maxHeight, nLegacy |-> nLegacy, nYcash |-> nYcash,
     legacyType |-> "script", ycashType |-> "key"]

\* small parameter sets, most of them pre-fork at every height
LegacyConfigs ==
    {FRConfig(f, b, m, s, 1) :
        f \in {NO_ACTIVATION_HEIGHT, 4},
        b \in {NO_ACTIVATION_HEIGHT, ALWAYS_ACTIVE, 1, 2},
        m \in 1 .. MaxLastHeight,
        s \in 1 .. MaxListSize}

\* parameter sets with the fork activated and no legacy reward period
YcashConfigs ==
    {FRConfig(f, NO_ACTIVATION_HEIGHT, 0, 1, ys) :
        f \in {-2, ALWAYS_ACTIVE, 3, 1000},
        ys \in (1 .. MaxListSize) \cup {48}}

\* 48 legacy addresses over a reward period of 480 blocks
Scenario480 == FRConfig(NO_ACTIVATION_HEIGHT, NO_ACTIVATION_HEIGHT, 480, 48, 48)

\* Consensus::PRE_BLOSSOM_HALVING_INTERVAL and its regtest counterpart
PRE_BLOSSOM_HALVING_INTERVAL == 840000

PRE_BLOSSOM_REGTEST_HALVING_INTERVAL == 150

\* consensus.nSubsidySlowStartInterval of the main and test constructors and
\* of the regtest constructor
MainSubsidySlowStartInterval == 20000

RegTestSubsidySlowStartInterval == 0

\* consensus.GetLastFoundersRewardBlockHeight(0): the halving interval plus
\* the slow-start shift, less one
PreBlossomLastHeight(nPreBlossomSubsidyHalvingInterval, nSubsidySlowStartInterval) ==
    nPreBlossomSubsidyHalvingInterval + (nSubsidySlowStartInterval \div 2) - 1

\* the three parameter sets as constructed: fork and Blossom heights, last
\* legacy-reward height and the sizes of the two address lists
MainFR ==
    FRConfig(MainUpgrades[UPGRADE_YCASH].nActivationHeight,
             MainUpgrades[UPGRADE_BLOSSOM].nActivationHeight,
             PreBlossomLastHeight(PRE_BLOSSOM_HALVING_INTERVAL,
                                  MainSubsidySlowStartInterval), 48, 48)

TestNetFR ==
    FRConfig(TestNetUpgrades[UPGRADE_YCASH].nActivationHeight,
             TestNetUpgrades[UPGRADE_BLOSSOM].nActivationHeight,
             PreBlossomLastHeight(PRE_BLOSSOM_HALVING_INTERVAL,
                                  MainSubsidySlowStartInterval), 48, 48)

RegTestFR ==
    FRConfig(NO_ACTIVATION_HEIGHT, NO_ACTIVATION_HEIGHT,
             PreBlossomLastHeight(PRE_BLOSSOM_REGTEST_HALVING_INTERVAL,
                                  RegTestSubsidySlowStartInterval), 1, 48)

NetworkConfigs == {MainFR, TestNetFR, RegTestFR}

\* the assert that follows the legacy list in each constructor
ListFitsRewardPeriod(cfg) == cfg.nLegacy <= cfg.maxHeight

\* heights looked up on a constructed parameter set: the first height, both
\* sides of the first rotation step, of the fork, of the Blossom activation
\* and of the end of the period
NetworkHeights(cfg) ==
    LET interval == (cfg.maxHeight + cfg.nLegacy) \div cfg.nLegacy
        f == cfg.upgrades[UPGRADE_YCASH].nActivationHeight
        b == cfg.upgrades[UPGRADE_BLOSSOM].nActivationHeight
    IN  {0, 1, interval - 1, interval, cfg.maxHeight, cfg.maxHeight + 1}
        \cup (IF f > 0 THEN {f - 1, f} ELSE {})
        \cup (IF b > 0 THEN {b - 1, b} ELSE {})

\* lists holding another kind of string than the constructors put there: a
\* key address or an undecodable string in the legacy list, a multisig address
\* or an undecodable string in the successor list
TypeConfigs ==
    {[FRConfig(NO_ACTIVATION_HEIGHT, NO_ACTIVATION_HEIGHT, 2, 1, 1)
         EXCEPT !.legacyType = t] : t \in {"key", "none"}}
    \cup
    {[FRConfig(ALWAYS_ACTIVE, NO_ACTIVATION_HEIGHT, 0, 1, 2)
         EXCEPT !.ycashType = t] : t \in {"script", "none"}}

FRConfigs ==
    LegacyConfigs \cup YcashConfigs \cup {Scenario480} \cup TypeConfigs
        \cup NetworkConfigs

\* heights around every rotation step of the first MaxCycles rotations
YcashHeights(cfg) ==
    LET f == cfg.upgrades[UPGRADE_YCASH].nActivationHeight
    IN  {f + (a * cfg.nYcash + b) * YcashAddressChangeInterval + c :
            a \in 0 .. MaxCycles, b \in {0, 1, cfg.nYcash - 1},
            c \in {0, YcashAddressChangeInterval - 1}}
        \cup (IF f > 0 THEN {f - 1} ELSE {})

QueryHeights(cfg) ==
    CASE cfg \in NetworkConfigs -> NetworkHeights(cfg)
      [] cfg.maxHeight = 0   -> YcashHeights(cfg)
      [] cfg.maxHeight = 480 -> {1, 10, 11, 239, 240, 241, 479, 480, 481}
      [] OTHER               -> (-1) .. MaxQueryHeight

NoLookup == [nHeight |-> -1, result |-> Aborted("none", -1)]

NoScriptLookup == [nHeight |-> -1, result |-> ScriptAborted("none", "none")]

NoIndexLookup == [fn |-> "none", i |-> -1, result |-> IndexAborted]

\* the indices the accessors are called with: both ends of a list and the
\* first index on either side of it
AccessorIndices(size) == {-1, 0, 1, size - 1, size}

\* one call of GetFoundersRewardAddressAtHeight; a failed assert ends the process
Lookup(nHeight) ==
    /\ frLast.result.status # "abort" \/ frLast = NoLookup
    /\ frScript.result.status # "abort" \/ frScript = NoScriptLookup
    /\ frIndex.result.status # "abort" \/ frIndex = NoIndexLookup
    /\ frPrev' = frLast
    /\ frLast' = [nHeight |-> nHeight,
                  result |-> GetFoundersRewardAddressAtHeight(frCfg, nHeight)]
    /\ frScript' = NoScriptLookup
    /\ frIndex' = NoIndexLookup
    /\ UNCHANGED <<frCfg, procVars, selVars, concVars>>

\* one call of GetFoundersRewardScriptAtHeight; unless its own range assert
\* fails first it calls GetFoundersRewardAddressAtHeight, which is recorded
\* as the last address lookup
ScriptLookup(nHeight) ==
    /\ frLast.result.status # "abort" \/ frLast = NoLookup
    /\ frScript.result.status # "abort" \/ frScript = NoScriptLookup
    /\ frIndex.result.status # "abort" \/ frIndex = NoIndexLookup
    /\ frIndex' = NoIndexLookup
    /\ frScript' = [nHeight |-> nHeight,
                    result |-> GetFoundersRewardScriptAtHeight(frCfg, nHeight)]
    /\ IF frScript'.result.cause = "height"
       THEN UNCHANGED <<frPrev, frLast>>
       ELSE /\ frPrev' = frLast
            /\ frLast' = [nHeight |-> nHeight,
                          result |-> GetFoundersRewardAddressAtHeight(frCfg, nHeight)]
    /\ UNCHANGED <<frCfg, procVars, selVars, concVars>>

\* one call of GetZcashFoundersRewardAddressAtIndex ("zcash") or of
\* GetYcashFoundersRewardAddressAtIndex ("ycash"); the last address lookup
\* stays on record, the one before it and the script lookup do not
IndexLookup(fn, i) ==
    /\ frLast.result.status # "abort" \/ frLast = NoLookup
    /\ frScript.result.status # "abort" \/ frScript = NoScriptLookup
    /\ frIndex.result.status # "abort" \/ frIndex = NoIndexLookup
    /\ frIndex' = [fn |-> fn, i |-> i,
                   result |-> IF fn = "zcash"
                              THEN GetZcashFoundersRewardAddressAtIndex(frCfg, i)
                              ELSE GetYcashFoundersRewardAddressAtIndex(frCfg, i)]
    /\ frPrev' = NoLookup
    /\ frScript' = NoScriptLookup
    /\ UNCHANGED <<frCfg, frLast, procVars, selVars, concVars>>

(***************************************************************************)
(* Reader threads and an unlocked override of the Equihash table.          *)
(***************************************************************************)
\* the network and height of the Equihash reads: the first Overwinter height
\* of the main network, and regtest
ReaderEquihashInputs ==
    {<<"main", MainUpgrades[UPGRADE_OVERWINTER].nActivationHeight>>,
     <<"regtest", 0>>}

\* the heights of the founders-reward reads: one before the fork, one after
ReaderHeights == {1, 4}

\* the parameter set of the founders-reward reads
ReaderFR == FRConfig(4, NO_ACTIVATION_HEIGHT, 5, 2, 2)

\* the table entry of the epoch a read resolves to, as it stands now
CurrentEpochEntry(net, nHeight) ==
    EquihashUpgradeInfo[CurrentEpoch(nHeight, vUpgrades[net])]

\* the writer runs while readers are inside a call
MarkOverlap(rs) ==
    [r \in Readers |->
        IF rs[r].pc = "idle" THEN rs[r] ELSE [rs[r] EXCEPT !.overlap = TRUE]]

\* faulty variant: the read stores the resolved value back into the table
ReadEquihashN_Caching(r, net, nHeight) ==
    /\ ~aborted
    /\ readers[r].pc = "idle"
    /\ readers' = [readers EXCEPT ![r] =
          [pc |-> "gotN", fn |-> "equihash", net |-> net, nHeight |-> nHeight,
           n |-> EquihashN(net, nHeight),
           start |-> CurrentEpochEntry(net, nHeight),
           overlap |-> writer.pc # "idle"]]
    /\ EquihashUpgradeInfo' =
          [EquihashUpgradeInfo EXCEPT
              ![CurrentEpoch(nHeight, vUpgrades[net])].N = EquihashN(net, nHeight)]
    /\ UNCHANGED <<vUpgrades, vFundingStreams, pow, aborted, nCalls,
                   selVars, frVars, writer, lastRead>>

\* a reader calls EquihashN(nHeight) on a parameter set: one load of the
\* table entry's N
ReadEquihashN(r, net, nHeight) ==
    /\ ~aborted
    /\ readers[r].pc = "idle"
    /\ readers' = [readers EXCEPT ![r] =
          [pc |-> "gotN", fn |-> "equihash", net |-> net, nHeight |-> nHeight,
           n |-> EquihashN(net, nHeight),
           start |-> CurrentEpochEntry(net, nHeight),
           overlap |-> writer.pc # "idle"]]
    /\ UNCHANGED <<procVars, selVars, frVars, writer, lastRead>>

\* the reader then calls EquihashK(nHeight): one load of the entry's K
ReadEquihashK(r) ==
    /\ ~aborted
    /\ readers[r].pc = "gotN"
    /\ lastRead' =
          [fn |-> "equihash", net |-> readers[r].net,
           nHeight |-> readers[r].nHeight, n |-> readers[r].n,
           k |-> EquihashK(readers[r].net, readers[r].nHeight),
           start |-> readers[r].start,
           end |-> CurrentEpochEntry(readers[r].net, readers[r].nHeight),
           overlap |-> readers[r].overlap, ret |-> "none"]
    /\ readers' = [readers EXCEPT ![r] = IdleReader]
    /\ UNCHANGED <<procVars, selVars, frVars, writer>>

\* a reader calls GetFoundersRewardAddressAtHeight ("address") or
\* GetFoundersRewardScriptAtHeight ("script"): the call loads nothing that a
\* writer stores to, so it is one step
FoundersRewardRead(r, fn, nHeight) ==
    /\ ~aborted
    /\ readers[r].pc = "idle"
    /\ lastRead' =
          [NoRead EXCEPT
              !.fn = fn, !.nHeight = nHeight, !.overlap = writer.pc # "idle",
              !.ret = IF fn = "address"
                      THEN GetFoundersRewardAddressAtHeight(frCfg, nHeight)
                      ELSE GetFoundersRewardScriptAtHeight(frCfg, nHeight)]
    /\ UNCHANGED <<procVars, selVars, frVars, writer, readers>>

\* UpdateEquihashUpgradeParameters up to and including its first store
StoreEquihashN(idx, n, k) ==
    /\ ~aborted
    /\ writer.pc = "idle"
    /\ IF idx > BASE_SPROUT /\ idx < MAX_NETWORK_UPGRADES
       THEN /\ EquihashUpgradeInfo' = [EquihashUpgradeInfo EXCEPT ![idx].N = n]
            /\ writer' = [pc |-> "storedN", idx |-> idx, k |-> k]
            /\ readers' = MarkOverlap(readers)
            /\ UNCHANGED aborted
       ELSE /\ aborted' = TRUE
            /\ UNCHANGED <<EquihashUpgradeInfo, writer, readers>>
    /\ UNCHANGED <<vUpgrades, vFundingStreams, pow, nCalls, selVars, frVars, lastRead>>

\* its second store, after which it returns
StoreEquihashK ==
    /\ ~aborted
    /\ writer.pc = "storedN"
    /\ EquihashUpgradeInfo' = [EquihashUpgradeInfo EXCEPT ![writer.idx].K = writer.k]
    /\ writer' = IdleWriter
    /\ readers' = MarkOverlap(readers)
    /\ UNCHANGED <<vUpgrades, vFundingStreams, pow, aborted, nCalls,
                   selVars, frVars, lastRead>>

(***************************************************************************)
(* Specifications.                                                         *)
(***************************************************************************)
\* the process: construction, then mutator calls
Init ==
    /\ ProcInit
    /\ mapArgs = {}
    /\ frScript = NoScriptLookup
    /\ frCfg = FRConfig(NO_ACTIVATION_HEIGHT, NO_ACTIVATION_HEIGHT, 1, 1, 1)
    /\ frPrev = NoLookup
    /\ frLast = NoLookup
    /\ frIndex = NoIndexLookup

Next ==
    \/ \E idx \in IdxInputs, h \in ActHeights : UpdateNetworkUpgradeParameters(idx, h)
    \/ \E idx \in IdxInputs, n \in EquihashNInputs, k \in EquihashKInputs :
          UpdateEquihashUpgradeParameters(idx, n, k)
    \/ \E idx \in FundingStreamIdxInputs, fs \in FundingStreamInputs :
          UpdateFundingStreamParameters(idx, fs)
    \/ \E p \in PowInputs : UpdateRegtestPow(p)

Spec == Init /\ [][Next]_vars

\* founders-reward lookups on a parameter set drawn at construction
FRInit ==
    /\ ProcInit
    /\ mapArgs = {}
    /\ frScript = NoScriptLookup
    /\ EquihashUpgradeInfo[BASE_SPROUT] = [N |-> DEFAULT_PARAMS, K |-> DEFAULT_PARAMS]
    /\ frCfg \in FRConfigs
    /\ frPrev = NoLookup
    /\ frLast = NoLookup
    /\ frIndex = NoIndexLookup

FRNext ==
    \/ \E h \in QueryHeights(frCfg) : Lookup(h)
    \/ \E h \in QueryHeights(frCfg) : ScriptLookup(h)
    \/ \E i \in AccessorIndices(frCfg.nLegacy) : IndexLookup("zcash", i)
    \/ \E i \in AccessorIndices(frCfg.nYcash) : IndexLookup("ycash", i)

SpecFR == FRInit /\ [][FRNext]_vars

\* selection: the command line is drawn at start-up, then selections, Params
\* calls and mutator calls follow in any order
SelInit ==
    /\ ProcInit
    /\ EquihashUpgradeInfo[BASE_SPROUT] = [N |-> DEFAULT_PARAMS, K |-> DEFAULT_PARAMS]
    /\ mapArgs \in MapArgsInputs
    /\ frCfg = FRConfig(NO_ACTIVATION_HEIGHT, NO_ACTIVATION_HEIGHT, 1, 1, 1)
    /\ frPrev = NoLookup
    /\ frLast = NoLookup
    /\ frIndex = NoIndexLookup
    /\ frScript = NoScriptLookup

\* upgrade indices and activation heights the mutators are called with
\* between selections
SelIdxInputs ==
    {BASE_SPROUT, UPGRADE_OVERWINTER, UPGRADE_ZFUTURE, MAX_NETWORK_UPGRADES}

SelActHeights == {ALWAYS_ACTIVE, MaxActHeight}

\* upgrade indices UpdateEquihashUpgradeParameters is called with: the base
\* index, an epoch main and test pass through, and the first index past the
\* table
SelEquihashIdxInputs == {BASE_SPROUT, UPGRADE_OVERWINTER, MAX_NETWORK_UPGRADES}

SelNext ==
    \/ \E network \in ChainInputs : SelectParams(network)
    \/ Params
    \/ \E chain \in ChainInputs : ParamsChain(chain)
    \/ \E idx \in SelIdxInputs, h \in SelActHeights :
          UpdateNetworkUpgradeParameters(idx, h)
    \/ \E idx \in SelEquihashIdxInputs, n \in EquihashNInputs, k \in EquihashKInputs :
          UpdateEquihashUpgradeParameters(idx, n, k)
    \/ \E idx \in FundingStreamIdxInputs, fs \in FundingStreamInputs :
          UpdateFundingStreamParameters(idx, fs)
    \/ \E p \in PowInputs : UpdateRegtestPow(p)

SpecSel == SelInit /\ [][SelNext]_vars

\* reader threads running against one writer thread that overrides Equihash
\* parameters
ConcInit ==
    /\ ProcInit
    /\ EquihashUpgradeInfo[BASE_SPROUT] = [N |-> DEFAULT_PARAMS, K |-> DEFAULT_PARAMS]
    /\ mapArgs = {}
    /\ frCfg = ReaderFR
    /\ frPrev = NoLookup
    /\ frLast = NoLookup
    /\ frIndex = NoIndexLookup
    /\ frScript = NoScriptLookup

ConcNext ==
    \/ \E r \in Readers, c \in ReaderEquihashInputs : ReadEquihashN(r, c[1], c[2])
    \/ \E r \in Readers : ReadEquihashK(r)
    \/ \E r \in Readers, fn \in {"address", "script"}, h \in ReaderHeights :
          FoundersRewardRead(r, fn, h)
    \/ \E idx \in {BASE_SPROUT, UPGRADE_OVERWINTER},
          n \in EquihashNInputs, k \in EquihashKInputs : StoreEquihashN(idx, n, k)
    \/ StoreEquihashK

SpecConc == ConcInit /\ [][ConcNext]_vars

(***************************************************************************)
(* Properties of epoch resolution and of the Equihash lookup (Spec).       *)
(***************************************************************************)
\* heights at which the epoch of a schedule can change: every activation
\* height with its two neighbours, and the floor
EpochHeights(upgrades) ==
    {0, 2000000} \cup
    {h \in UNION {{upgrades[idx].nActivationHeight - 1,
                   upgrades[idx].nActivationHeight} : idx \in UpgradeIndex} : h >= 0}

MainHeights == EpochHeights(MainUpgrades)

TestNetHeights == EpochHeights(TestNetUpgrades)

\* the heights a network is examined at: those of its constructed schedule
\* for main and test, those of the current schedule for regtest
CheckHeights(net) ==
    CASE net = "main"    -> MainHeights
      [] net = "test"    -> TestNetHeights
      [] net = "regtest" -> EpochHeights(vUpgrades["regtest"])

\* the epoch of each of these heights
Epochs(net) ==
    [h \in CheckHeights(net) |-> CurrentEpoch(h, vUpgrades[net])]

\* the upgrade indices in force at a height
ActiveSet(upgrades, nHeight) ==
    {BASE_SPROUT} \cup
    {idx \in UpgradeIndex :
        /\ upgrades[idx].nActivationHeight # NO_ACTIVATION_HEIGHT
        /\ upgrades[idx].nActivationHeight <= nHeight}

Highest(S) == CHOOSE x \in S : \A y \in S : y <= x

\* C1: on every network's schedule, for heights h1 <= h2 the epoch at h1 is
\* not above the epoch at h2
C1_EpochMonotone ==
    \A net \in Networks :
        LET epoch == Epochs(net)
        IN  \A h1, h2 \in DOMAIN epoch : h1 <= h2 => epoch[h1] <= epoch[h2]

\* the regtest schedule has been rewritten out of index order and its epoch
\* rises with the height
C1_Witness ==
    /\ nCalls > 0
    /\ \E i, j \in UpgradeIndex :
          /\ BASE_SPROUT < i /\ i < j
          /\ vUpgrades["regtest"][j].nActivationHeight > 0
          /\ vUpgrades["regtest"][i].nActivationHeight >
                vUpgrades["regtest"][j].nActivationHeight
    /\ \E h1, h2 \in CheckHeights("regtest") :
          /\ h1 < h2
          /\ CurrentEpoch(h1, vUpgrades["regtest"]) < CurrentEpoch(h2, vUpgrades["regtest"])

\* C2 as stated: the epoch at height 0 is the base upgrade on every network,
\* whatever UpdateNetworkUpgradeParameters calls were made
C2_Original ==
    \A net \in Networks : CurrentEpoch(0, vUpgrades[net]) = BASE_SPROUT

\* upgrades above the base that are in force at height 0
ActiveAtFloor(upgrades) ==
    {idx \in UpgradeIndex \ {BASE_SPROUT} :
        /\ upgrades[idx].nActivationHeight # NO_ACTIVATION_HEIGHT
        /\ upgrades[idx].nActivationHeight <= 0}

\* C2 amended: the epoch at height 0 is the base upgrade on main and test, and
\* on the regtest schedule as constructed; on a rewritten regtest schedule it
\* is the base upgrade exactly when no upgrade above the base has an
\* activation height <= 0 (ALWAYS_ACTIVE or negative), and the highest such
\* upgrade otherwise
C2_EpochAtFloor ==
    /\ CurrentEpoch(0, vUpgrades["main"]) = BASE_SPROUT
    /\ CurrentEpoch(0, vUpgrades["test"]) = BASE_SPROUT
    /\ vUpgrades["regtest"] = RegTestUpgrades =>
          CurrentEpoch(0, vUpgrades["regtest"]) = BASE_SPROUT
    /\ IF ActiveAtFloor(vUpgrades["regtest"]) = {}
       THEN CurrentEpoch(0, vUpgrades["regtest"]) = BASE_SPROUT
       ELSE CurrentEpoch(0, vUpgrades["regtest"]) =
                Highest(ActiveAtFloor(vUpgrades["regtest"]))

\* regtest rewritten twice, one upgrade made ALWAYS_ACTIVE below one with a
\* positive height: the epoch at height 0 is the former
C2_Witness ==
    /\ nCalls = 2
    /\ \E i, j \in UpgradeIndex :
          /\ BASE_SPROUT < i /\ i < j
          /\ vUpgrades["regtest"][i].nActivationHeight = ALWAYS_ACTIVE
          /\ vUpgrades["regtest"][j].nActivationHeight > 0
          /\ CurrentEpoch(0, vUpgrades["regtest"]) = i

\* C3: the epoch is the highest upgrade index whose activation height is at or
\* below the height, NO_ACTIVATION_HEIGHT never counting; on main and test it
\* is never TESTDUMMY, NU5 or ZFUTURE, and on the regtest schedule as
\* constructed it is the base upgrade at every height
C3_EpochIsHighestActive ==
    /\ \A net \in Networks :
          LET epoch == Epochs(net)
          IN  \A h \in DOMAIN epoch :
                  /\ epoch[h] = Highest(ActiveSet(vUpgrades[net], h))
                  /\ net # "regtest" =>
                        epoch[h] \notin {UPGRADE_TESTDUMMY, UPGRADE_NU5, UPGRADE_ZFUTURE}
    /\ CurrentEpoch(347499, vUpgrades["main"]) = BASE_SPROUT
    /\ CurrentEpoch(570000, vUpgrades["main"]) = UPGRADE_YCASH
    /\ CurrentEpoch(2000000, vUpgrades["main"]) = UPGRADE_CANOPY
    /\ CurrentEpoch(510247, vUpgrades["test"]) = UPGRADE_SAPLING
    /\ CurrentEpoch(2000000, vUpgrades["test"]) = UPGRADE_CANOPY
    /\ vUpgrades["regtest"] = RegTestUpgrades =>
          \A h \in 0 .. (MaxActHeight + 1) \cup {2000000} :
              CurrentEpoch(h, vUpgrades["regtest"]) = BASE_SPROUT

\* regtest holds two activated upgrades, the upper one activating first, with
\* a never-activating upgrade above both: the upper activated one is the epoch
C3_Witness ==
    \E i, j \in UpgradeIndex :
        /\ BASE_SPROUT < i /\ i < j /\ j < UPGRADE_ZFUTURE
        /\ vUpgrades["regtest"][j].nActivationHeight = 1
        /\ vUpgrades["regtest"][i].nActivationHeight = 2
        /\ vUpgrades["regtest"][j + 1].nActivationHeight = NO_ACTIVATION_HEIGHT
        /\ CurrentEpoch(2, vUpgrades["regtest"]) = j

\* C4: on regtest EquihashN and EquihashK give the network-wide pair at every
\* height, whatever mutator calls were made
C4_RegtestEquihashConstant ==
    \A h \in CheckHeights("regtest") :
        /\ EquihashN("regtest", h) = 48
        /\ EquihashK("regtest", h) = 5

\* the regtest schedule puts some height in an upgrade whose table entry was
\* overridden in both fields
C4_Witness ==
    \E h \in CheckHeights("regtest") :
        LET e == EquihashUpgradeInfo[CurrentEpoch(h, vUpgrades["regtest"])]
        IN  /\ CurrentEpoch(h, vUpgrades["regtest"]) # BASE_SPROUT
            /\ e.N = 96
            /\ e.K = 3

\* C5: on main and test EquihashN is the N entry of the table at the epoch of
\* the height, or the network default when that entry is DEFAULT_PARAMS, and
\* EquihashK likewise from the K entry, each decided by its own entry
C5_EquihashFromEpoch ==
    \A net \in {"main", "test"} :
        LET epoch == Epochs(net)
        IN  \A h \in DOMAIN epoch :
                LET e == EquihashUpgradeInfo[epoch[h]]
                IN  /\ EquihashN(net, h) = IF e.N = DEFAULT_PARAMS THEN 200 ELSE e.N
                    /\ EquihashK(net, h) = IF e.K = DEFAULT_PARAMS THEN 9 ELSE e.K

\* the Overwinter entry was overridden with an explicit N and the sentinel for
\* K: on main N is the override and K the default
C5_Witness ==
    /\ EquihashUpgradeInfo[UPGRADE_OVERWINTER] = [N |-> 96, K |-> DEFAULT_PARAMS]
    /\ EquihashN("main", 347500) = 96
    /\ EquihashK("main", 347500) = 9

(***************************************************************************)
(* Properties of the founders-reward address rotation (SpecFR).            *)
(***************************************************************************)
\* the lookup ran in the pre-fork regime
PreFork(lookup) ==
    /\ lookup # NoLookup
    /\ ~NetworkUpgradeActive(frCfg.upgrades, lookup.nHeight, UPGRADE_YCASH)

\* the lookup ran in the post-fork regime
PostFork(lookup) ==
    /\ lookup # NoLookup
    /\ NetworkUpgradeActive(frCfg.upgrades, lookup.nHeight, UPGRADE_YCASH)

\* pre-fork lookup of a height within (0, maxHeight]
InRewardPeriod(lookup) ==
    /\ PreFork(lookup)
    /\ 0 < lookup.nHeight
    /\ lookup.nHeight <= frCfg.maxHeight

\* pre-fork lookup that returned an address
LegacyReturned(lookup) ==
    /\ PreFork(lookup)
    /\ lookup.result.status = "ok"

\* the legacy list, each entry in the Ycash encoding
ReencodedLegacyList ==
    {[format |-> "yec", type |-> frCfg.legacyType, list |-> "legacy", pos |-> i] :
        i \in 0 .. (frCfg.nLegacy - 1)}

Ceil(a, b) == IF a % b = 0 THEN a \div b ELSE (a \div b) + 1

\* C6 as stated: pre-fork, every height in (0, maxHeight] is answered with an
\* entry of the legacy list, re-encoded, and the index selected does not
\* decrease as the height grows, Blossom rescaling included
C6_Original ==
    /\ InRewardPeriod(frLast) =>
          /\ frLast.result.status = "ok"
          /\ frLast.result.address \in ReencodedLegacyList
    /\ (InRewardPeriod(frPrev) /\ InRewardPeriod(frLast)
            /\ frPrev.nHeight <= frLast.nHeight) =>
          frPrev.result.i <= frLast.result.i

\* C7 as stated: the pre-fork interval is ceil(maxHeight / size) and the index
\* is floor(height' / interval), also when size divides maxHeight
C7_Original ==
    LegacyReturned(frLast) =>
        /\ frLast.result.addressChangeInterval = Ceil(frCfg.maxHeight, frCfg.nLegacy)
        /\ frLast.result.i = frLast.result.nHeight \div frLast.result.addressChangeInterval

\* C7 amended: the pre-fork interval is floor(maxHeight / size) + 1, that is
\* ceil((maxHeight + 1) / size); it equals ceil(maxHeight / size) exactly when
\* size does not divide maxHeight, and is one more when it does; the index is
\* floor(height' / interval) and the address is that entry of the legacy list
C7_LegacyInterval ==
    LegacyReturned(frLast) =>
        LET interval == frLast.result.addressChangeInterval
            m == frCfg.maxHeight
            size == frCfg.nLegacy
        IN  /\ interval = (m \div size) + 1
            /\ interval = Ceil(m + 1, size)
            /\ m % size # 0 => interval = Ceil(m, size)
            /\ m % size = 0 => interval = Ceil(m, size) + 1
            /\ frLast.result.i = frLast.result.nHeight \div interval
            /\ frLast.result.address =
                  [format |-> "yec", type |-> frCfg.legacyType, list |-> "legacy",
                   pos |-> frLast.result.nHeight \div interval]

\* a list size above 1 that divides maxHeight, looked up at maxHeight: the last
\* entry is selected
C7_Witness ==
    /\ LegacyReturned(frLast)
    /\ frCfg.nLegacy > 1
    /\ frCfg.maxHeight % frCfg.nLegacy = 0
    /\ frLast.nHeight = frCfg.maxHeight
    /\ frLast.result.nHeight = frCfg.maxHeight
    /\ frLast.result.i = frCfg.nLegacy - 1

\* the entry of the legacy list a lookup returned, -1 when it returned none
LegacyPos(lookup) ==
    IF LegacyReturned(lookup) /\ lookup.result.address \in ReencodedLegacyList
    THEN lookup.result.address.pos
    ELSE -1

\* C8 as stated: with 48 legacy addresses and maxHeight 480, height 1 gives
\* entry 0, height 240 entry 24 and height 480 entry 47
C8_Original ==
    frCfg = Scenario480 =>
        /\ frLast.nHeight = 1 => LegacyPos(frLast) = 0
        /\ frLast.nHeight = 240 => LegacyPos(frLast) = 24
        /\ frLast.nHeight = 480 => LegacyPos(frLast) = 47

\* C8 amended: with 48 legacy addresses and maxHeight 480 the interval is 11,
\* so height 1 gives entry 0, height 240 entry 21 and height 480 entry 43
C8_Scenario480 ==
    frCfg = Scenario480 =>
        /\ frLast # NoLookup /\ frLast.result.status = "ok" =>
              frLast.result.addressChangeInterval = 11
        /\ frLast.nHeight = 1 => LegacyPos(frLast) = 0
        /\ frLast.nHeight = 240 => LegacyPos(frLast) = 21
        /\ frLast.nHeight = 480 => LegacyPos(frLast) = 43

\* heights 240 and then 480 were looked up in that scenario
C8_Witness ==
    /\ frCfg = Scenario480
    /\ frPrev.nHeight = 240
    /\ LegacyPos(frPrev) = 21
    /\ frLast.nHeight = 480
    /\ LegacyPos(frLast) = 43

\* C9: post-fork the address is entry floor((height - forkHeight) / 17917) mod
\* size of the successor list, so forkHeight + k * 17917 * size gives entry 0
\* for every k >= 0; with fork height 1000 and 48 entries, heights 1000 and
\* 1000 + 48 * 17917 both give entry 0
C9_YcashRotation ==
    PostFork(frLast) =>
        LET f == frCfg.upgrades[UPGRADE_YCASH].nActivationHeight
            h == frLast.nHeight
        IN  /\ frLast.result.status = "ok"
            /\ frLast.result.address =
                  [format |-> "yec", type |-> frCfg.ycashType, list |-> "ycash",
                   pos |-> ((h - f) \div 17917) % frCfg.nYcash]
            /\ \A k \in 0 .. MaxCycles :
                  h = f + k * 17917 * frCfg.nYcash => frLast.result.address.pos = 0
            /\ (f = 1000 /\ frCfg.nYcash = 48 /\ h \in {1000, 861016}) =>
                  frLast.result.address.pos = 0

\* fork height 1000, 48 entries: the last entry one block before a full
\* rotation ends, entry 0 again when it ends
C9_Witness ==
    /\ frCfg.upgrades[UPGRADE_YCASH].nActivationHeight = 1000
    /\ frCfg.nYcash = 48
    /\ frPrev.nHeight = 861015
    /\ frPrev.result.address.pos = 47
    /\ frLast.nHeight = 861016
    /\ frLast.result.i = 48
    /\ frLast.result.address.pos = 0

\* Blossom is active at the height of the lookup
BlossomActiveAt(lookup) ==
    NetworkUpgradeActive(frCfg.upgrades, lookup.nHeight, UPGRADE_BLOSSOM)

\* C10: pre-fork, the height used for the rotation is blossomHeight +
\* floor((height - blossomHeight) / ratio) when Blossom is active and the raw
\* height when it is not; it equals the raw height at the activation height
\* and grows by one for every `ratio` raw blocks beyond it
C10_Rescaling ==
    LET b == frCfg.upgrades[UPGRADE_BLOSSOM].nActivationHeight
        ratio == BLOSSOM_POW_TARGET_SPACING_RATIO
    IN  /\ \A lookup \in {frPrev, frLast} :
              PreFork(lookup) =>
                  /\ BlossomActiveAt(lookup) =>
                        lookup.result.nHeight = b + ((lookup.nHeight - b) \div ratio)
                  /\ ~BlossomActiveAt(lookup) => lookup.result.nHeight = lookup.nHeight
                  /\ lookup.nHeight = b => lookup.result.nHeight = lookup.nHeight
        /\ (PreFork(frPrev) /\ PreFork(frLast)
                /\ BlossomActiveAt(frPrev) /\ BlossomActiveAt(frLast)
                /\ frLast.nHeight = frPrev.nHeight + ratio) =>
              frLast.result.nHeight = frPrev.result.nHeight + 1

\* Blossom activates at height 2: that height is used as it is, and the
\* height two blocks later counts as one more
C10_Witness ==
    /\ frCfg.upgrades[UPGRADE_BLOSSOM].nActivationHeight = 2
    /\ PreFork(frPrev) /\ PreFork(frLast)
    /\ frPrev.nHeight = 2
    /\ frPrev.result.status = "ok"
    /\ frPrev.result.nHeight = 2
    /\ frLast.nHeight = 4
    /\ frLast.result.status = "ok"
    /\ frLast.result.nHeight = 3

\* the height the legacy rotation works with, from the definition of the
\* rescaling
RescaledHeight(h) ==
    LET b == frCfg.upgrades[UPGRADE_BLOSSOM].nActivationHeight
    IN  IF b # NO_ACTIVATION_HEIGHT /\ h >= b
        THEN b + ((h - b) \div BLOSSOM_POW_TARGET_SPACING_RATIO)
        ELSE h

\* the script lookup ran in the pre-fork regime
PreForkScript(lookup) ==
    /\ lookup # NoScriptLookup
    /\ ~NetworkUpgradeActive(frCfg.upgrades, lookup.nHeight, UPGRADE_YCASH)

C12_Original ==
    [][(nCalls' # nCalls /\ pCurrentParams \in {"main", "test"}) =>
          /\ aborted'
          /\ vUpgrades' = vUpgrades
          /\ EquihashUpgradeInfo' = EquihashUpgradeInfo
          /\ vFundingStreams' = vFundingStreams
          /\ pow' = pow]_vars

\* C13: the base entry of every schedule keeps ALWAYS_ACTIVE as its activation
\* height, on main, test and regtest, whatever calls were applied or aborted
C13_BaseImmutable ==
    \A net \in Networks :
        vUpgrades[net][BASE_SPROUT].nActivationHeight = ALWAYS_ACTIVE

\* one call rewrote a regtest entry, the next call failed its assert
C13_Witness ==
    /\ nCalls = 2
    /\ aborted
    /\ vUpgrades["regtest"] # RegTestUpgrades
    /\ vUpgrades["regtest"][BASE_SPROUT] = Upgrade(170002, ALWAYS_ACTIVE)

\* C14: UpdateNetworkUpgradeParameters(idx, h) aborts and leaves the schedules
\* alone when idx is the base index or idx >= MAX_NETWORK_UPGRADES; otherwise
\* it sets the activation height of regtest entry idx to h and changes no
\* other activation height and no protocol version
C14_UpdateFrame ==
    [][\A idx \in SelIdxInputs, h \in SelActHeights :
          UpdateNetworkUpgradeParameters(idx, h) =>
              IF idx = BASE_SPROUT \/ idx >= MAX_NETWORK_UPGRADES
              THEN aborted' /\ vUpgrades' = vUpgrades
              ELSE /\ ~aborted'
                   /\ vUpgrades'["regtest"][idx].nActivationHeight = h
                   /\ \A net \in Networks, j \in UpgradeIndex :
                         /\ vUpgrades'[net][j].nProtocolVersion =
                               vUpgrades[net][j].nProtocolVersion
                         /\ (net # "regtest" \/ j # idx) =>
                               vUpgrades'[net][j].nActivationHeight =
                                   vUpgrades[net][j].nActivationHeight]_vars

\* one call was made and applied: the Overwinter entry of regtest carries the
\* new height and its protocol version, everything else is as constructed
C14_Witness ==
    /\ nCalls = 1
    /\ ~aborted
    /\ vUpgrades["regtest"][UPGRADE_OVERWINTER] = Upgrade(170003, MaxActHeight)
    /\ \A j \in UpgradeIndex \ {UPGRADE_OVERWINTER} :
          vUpgrades["regtest"][j] = RegTestUpgrades[j]
    /\ vUpgrades["main"] = MainUpgrades
    /\ vUpgrades["test"] = TestNetUpgrades

\* C15: UpdateFundingStreamParameters(idx, fs) aborts and leaves the
\* funding-stream tables alone when idx < FIRST_FUNDING_STREAM or
\* idx >= MAX_FUNDING_STREAMS; otherwise regtest entry idx becomes fs and
\* every other funding-stream entry is unchanged
C15_FundingStreamFrame ==
    [][\A idx \in FundingStreamIdxInputs, fs \in FundingStreamInputs :
          UpdateFundingStreamParameters(idx, fs) =>
              IF idx < FIRST_FUNDING_STREAM \/ idx >= MAX_FUNDING_STREAMS
              THEN aborted' /\ vFundingStreams' = vFundingStreams
              ELSE /\ ~aborted'
                   /\ DOMAIN vFundingStreams' = DOMAIN vFundingStreams
                   /\ vFundingStreams'["regtest"][idx] = fs
                   /\ \A net \in Networks :
                         /\ DOMAIN vFundingStreams'[net] = DOMAIN vFundingStreams[net]
                         /\ \A i \in DOMAIN vFundingStreams[net] :
                               (net # "regtest" \/ i # idx) =>
                                   vFundingStreams'[net][i] = vFundingStreams[net][i]]_vars

\* the last funding stream of regtest was set, the others are still undefined
C15_Witness ==
    /\ nCalls = 1
    /\ ~aborted
    /\ vFundingStreams["regtest"][MAX_FUNDING_STREAMS - 1] \in FundingStreamInputs
    /\ \A i \in FIRST_FUNDING_STREAM .. (MAX_FUNDING_STREAMS - 2) :
          vFundingStreams["regtest"][i] = NoFundingStream
    /\ \A net \in {"main", "test"} :
          \A i \in DOMAIN vFundingStreams[net] :
              vFundingStreams[net][i] = NoFundingStream

\* chain names that are none of main, test, regtest
UnknownChains == {chain \in ChainInputs : chain \notin {"main", "test", "regtest"}}

\* C16: SelectParams and Params(chain) called with a name other than main,
\* test or regtest fail with the unknown-chain error in that call, and the
\* current parameter set, the flags and the other parameters stay as they were
C16_UnknownChain ==
    [][\A chain \in UnknownChains :
          /\ SelectParams(chain) =>
                /\ lastOp'.outcome = "unknown_chain"
                /\ lastOp'.ret = "null"
                /\ ~aborted'
                /\ pCurrentParams' = pCurrentParams
                /\ fZIP209Enabled' = fZIP209Enabled
                /\ fCoinbaseMustBeShielded' = fCoinbaseMustBeShielded
                /\ vUpgrades' = vUpgrades
          /\ ParamsChain(chain) =>
                /\ lastOp'.outcome = "unknown_chain"
                /\ lastOp'.ret = "null"
                /\ ~aborted'
                /\ pCurrentParams' = pCurrentParams]_vars

\* main was selected, then an unknown name was passed to SelectParams: the
\* call failed and main is still the current parameter set
C16_Witness ==
    /\ lastOp = [op |-> "SelectParams", chain |-> "dev",
                 outcome |-> "unknown_chain", ret |-> "null"]
    /\ lastSelected = "main"
    /\ pCurrentParams = "main"

\* C17: Params() hands out the parameter set of the most recent SelectParams
\* call that succeeded, main, test and regtest standing for three different
\* instances, and aborts when no selection has succeeded yet
C17_ParamsFollowsSelection ==
    /\ Cardinality({ParamsOfChain(chain) : chain \in {"main", "test", "regtest"}}) = 3
    /\ pCurrentParams = IF lastSelected = "none" THEN "null" ELSE lastSelected
    /\ lastOp.op = "Params" =>
          IF lastSelected = "none"
          THEN /\ lastOp.outcome = "abort"
               /\ lastOp.ret = "null"
               /\ aborted
          ELSE /\ lastOp.outcome = "ok"
               /\ lastOp.ret = lastSelected

\* regtest was selected with the ZIP209 switch on the command line, test was
\* selected after it, and Params() then handed out the test parameter set
C17_Witness ==
    /\ fZIP209Enabled["regtest"]
    /\ lastSelected = "test"
    /\ lastOp = [op |-> "Params", chain |-> "none", outcome |-> "ok", ret |-> "test"]

\* C18 as stated: on main, test and regtest the legacy list size is at most
\* the last legacy-reward height divided by the address-change interval
C18_Original ==
    (frCfg \in NetworkConfigs /\ LegacyReturned(frLast)) =>
        frCfg.nLegacy <=
            frCfg.maxHeight \div
                LegacyAddressChangeInterval(frCfg.maxHeight, frCfg.nLegacy)

\* C18 amended: on main, test and regtest the legacy list size is at most the
\* last legacy-reward height (48 <= 849999, 1 <= 149), which is what the
\* constructors assert; the last height divided by the address-change
\* interval is the list size less one (47, 47, 0), so it is below the list
\* size, as it is for every list not longer than the reward period, and an
\* index returned pre-fork is at most that quotient
C18_ListCoversPeriod ==
    LET m == frCfg.maxHeight
        size == frCfg.nLegacy
        interval == LegacyAddressChangeInterval(m, size)
    IN  /\ frCfg \in NetworkConfigs =>
              /\ ListFitsRewardPeriod(frCfg)
              /\ m \div interval = size - 1
              /\ LegacyReturned(frLast) => frLast.result.i <= m \div interval
        /\ frCfg = MainFR => (m = 849999 /\ size = 48 /\ interval = 17709)
        /\ frCfg = TestNetFR => (m = 849999 /\ size = 48 /\ interval = 17709)
        /\ frCfg = RegTestFR => (m = 149 /\ size = 1 /\ interval = 150)
        /\ (m > 0 /\ ListFitsRewardPeriod(frCfg)) =>
              /\ m \div interval < size
              /\ interval * size > m

\* regtest as constructed, looked up at the last height of the period, 149:
\* the only entry is returned
C18_Witness ==
    /\ frCfg = RegTestFR
    /\ LegacyReturned(frLast)
    /\ frLast.nHeight = 149
    /\ frLast.result.addressChangeInterval = 150
    /\ frLast.result.i = 0

\* the activation heights of a schedule, NO_ACTIVATION_HEIGHT entries left
\* out, do not decrease as the upgrade index grows
HeightsOrdered(upgrades) ==
    \A i, j \in UpgradeIndex :
        (/\ i < j
         /\ upgrades[i].nActivationHeight # NO_ACTIVATION_HEIGHT
         /\ upgrades[j].nActivationHeight # NO_ACTIVATION_HEIGHT) =>
            upgrades[i].nActivationHeight <= upgrades[j].nActivationHeight

\* C19 as stated: on every network and in every reachable state the
\* activation heights are ordered, UpdateNetworkUpgradeParameters calls
\* included
C19_Original ==
    \A net \in Networks : HeightsOrdered(vUpgrades[net])

\* C19 amended: the activation heights are ordered on main and on test in
\* every reachable state, and on regtest as long as its schedule is the
\* constructed one; UpdateNetworkUpgradeParameters stores any height at any
\* index above the base, so a rewritten regtest schedule need not be ordered
C19_ConstructedOrdered ==
    /\ HeightsOrdered(vUpgrades["main"])
    /\ HeightsOrdered(vUpgrades["test"])
    /\ vUpgrades["main"] = MainUpgrades
    /\ vUpgrades["test"] = TestNetUpgrades
    /\ HeightsOrdered(RegTestUpgrades)
    /\ nCalls = 0 => vUpgrades["regtest"] = RegTestUpgrades

\* two calls were applied and left the regtest schedule out of order, main
\* and test being ordered as before
C19_Witness ==
    /\ nCalls = 2
    /\ ~aborted
    /\ ~HeightsOrdered(vUpgrades["regtest"])
    /\ vUpgrades["regtest"][BASE_SPROUT].nActivationHeight = ALWAYS_ACTIVE
    /\ \A idx \in UpgradeIndex : vUpgrades["regtest"][idx].nActivationHeight >= -1
    /\ HeightsOrdered(vUpgrades["main"])
    /\ HeightsOrdered(vUpgrades["test"])

\* the script lookup got as far as decoding the address it resolved, which is
\* the address of the last address lookup
ScriptDecoded ==
    /\ frScript # NoScriptLookup
    /\ frScript.result.cause # "height"
    /\ frLast.nHeight = frScript.nHeight
    /\ frLast.result.status = "ok"

\* the 160-bit hash a transparent address string encodes
HashOf(addr) == <<addr.list, addr.pos>>

\* C20: GetFoundersRewardScriptAtHeight, pre-fork, returns OP_HASH160 <hash>
\* OP_EQUAL when the resolved address decodes to a script hash and aborts for
\* every other decoded form; post-fork, it returns OP_DUP OP_HASH160 <hash>
\* OP_EQUALVERIFY OP_CHECKSIG for a key hash, OP_HASH160 <hash> OP_EQUAL for a
\* script hash, and aborts for every other form
C20_ScriptForms ==
    ScriptDecoded =>
        LET addr == frLast.result.address
            res == frScript.result
        IN  /\ PreForkScript(frScript) =>
                  IF addr.type = "script"
                  THEN /\ res.status = "ok"
                       /\ res.script = <<"OP_HASH160", HashOf(addr), "OP_EQUAL">>
                  ELSE res.status = "abort" /\ res.script = <<>>
            /\ ~PreForkScript(frScript) =>
                  CASE addr.type = "key" ->
                         /\ res.status = "ok"
                         /\ res.script = <<"OP_DUP", "OP_HASH160", HashOf(addr),
                                           "OP_EQUALVERIFY", "OP_CHECKSIG">>
                    [] addr.type = "script" ->
                         /\ res.status = "ok"
                         /\ res.script = <<"OP_HASH160", HashOf(addr), "OP_EQUAL">>
                    [] OTHER -> res.status = "abort" /\ res.script = <<>>

\* post-fork, a successor list holding multisig addresses: the script of its
\* second entry is the pay-to-script-hash script
C20_Witness ==
    /\ ScriptDecoded
    /\ ~PreForkScript(frScript)
    /\ frCfg.ycashType = "script"
    /\ frLast.result.address.pos = 1
    /\ frScript.result.status = "ok"
    /\ frScript.result.script = <<"OP_HASH160", <<"ycash", 1>>, "OP_EQUAL">>

(***************************************************************************)
(* The script and the address of one height name the same destination.     *)
(***************************************************************************)
\* C21: whenever GetFoundersRewardScriptAtHeight(h) and
\* GetFoundersRewardAddressAtHeight(h) both return, the destination the
\* script pays to is the destination the address decodes to, pre-fork and
\* post-fork
C21_ScriptPaysAddress ==
    (ScriptDecoded /\ frScript.result.status = "ok") =>
        /\ frLast.nHeight = frScript.nHeight
        /\ frLast.result.status = "ok"
        /\ GetFoundersRewardAddressAtHeight(frCfg, frScript.nHeight).status = "ok"
        /\ IsValidDestination(ExtractDestination(frScript.result.script))
        /\ ExtractDestination(frScript.result.script) =
              DecodeDestination(
                  GetFoundersRewardAddressAtHeight(frCfg, frScript.nHeight).address)
        /\ frScript.result.regime = frLast.result.regime

\* C21 witness: a post-fork script paying the script hash its address names
C21_Witness ==
    /\ ScriptDecoded
    /\ frScript.result.status = "ok"
    /\ frScript.result.regime = "ycash"
    /\ ExtractDestination(frScript.result.script).kind = "script"
    /\ ExtractDestination(frScript.result.script) =
          DecodeDestination(frLast.result.address)

(***************************************************************************)
(* Reader threads (SpecConc).                                              *)
(***************************************************************************)
\* reader r takes a step of one of the four read functions
ReaderStep(r) ==
    \/ \E c \in ReaderEquihashInputs : ReadEquihashN(r, c[1], c[2])
    \/ ReadEquihashK(r)
    \/ \E fn \in {"address", "script"}, h \in ReaderHeights :
          FoundersRewardRead(r, fn, h)

\* C22: a step of EquihashN, EquihashK, GetFoundersRewardAddressAtHeight or
\* GetFoundersRewardScriptAtHeight by any reader changes no shared state, and
\* a read that no writer step overlapped returns what one sequential call
\* returns for the same network and height, however the other readers are
\* interleaved with it
C22_ReadersPure ==
    [][\A r \in Readers :
          ReaderStep(r) =>
              /\ UNCHANGED <<procVars, selVars, frVars, writer>>
              /\ \A q \in Readers \ {r} : readers'[q] = readers[q]
              /\ (ReadEquihashK(r) /\ ~readers[r].overlap) =>
                    /\ lastRead'.n = EquihashN(readers[r].net, readers[r].nHeight)
                    /\ lastRead'.k = EquihashK(readers[r].net, readers[r].nHeight)
              /\ (readers[r].pc = "idle" /\ lastRead'.fn = "address") =>
                    lastRead'.ret =
                        GetFoundersRewardAddressAtHeight(ReaderFR, lastRead'.nHeight)
              /\ (readers[r].pc = "idle" /\ lastRead'.fn = "script") =>
                    lastRead'.ret =
                        GetFoundersRewardScriptAtHeight(ReaderFR, lastRead'.nHeight)
      ]_vars

\* C22 witness: a reader completed an Equihash read no writer overlapped
\* while another reader is inside a read of the same network and height,
\* and both hold the same N
C22_Witness ==
    /\ lastRead.fn = "equihash"
    /\ ~lastRead.overlap
    /\ lastRead.net = "main"
    /\ lastRead.n = 96
    /\ \E r \in Readers :
          /\ readers[r].pc = "gotN"
          /\ ~readers[r].overlap
          /\ readers[r].net = lastRead.net
          /\ readers[r].nHeight = lastRead.nHeight
          /\ readers[r].n = lastRead.n

(***************************************************************************)
(* Bounds of the two list indices (SpecFR).                                *)
(***************************************************************************)
\* C23: with a non-empty legacy list of size s and maxHeight >= s, a
\* pre-fork lookup whose range assert passed indexes the list at
\* height' / ((maxHeight + s) / s), which is below s; the same quotient is
\* below s for every height' of 1 .. maxHeight
C23_LegacyIndexInBounds ==
    LET m == frCfg.maxHeight
        s == frCfg.nLegacy
        interval == (m + s) \div s
    IN  (s >= 1 /\ m >= s) =>
            /\ (PreFork(frLast) /\ frLast.result.status # "abort") =>
                  /\ 0 < frLast.result.nHeight /\ frLast.result.nHeight <= m
                  /\ frLast.result.status = "ok"
                  /\ frLast.result.i = frLast.result.nHeight \div interval
                  /\ frLast.result.i >= 0 /\ frLast.result.i < s
            /\ m \div LegacyAddressChangeInterval(m, s) < s
            /\ m <= 480 =>
                  \A h \in 1 .. m : h \div LegacyAddressChangeInterval(m, s) < s

\* C23 witness: the list size divides maxHeight and the last height of the
\* period was looked up: the index is s - 1
C23_Witness ==
    /\ frCfg.nLegacy > 1
    /\ frCfg.maxHeight >= frCfg.nLegacy
    /\ frCfg.maxHeight % frCfg.nLegacy = 0
    /\ PreFork(frLast)
    /\ frLast.result.status = "ok"
    /\ frLast.result.nHeight = frCfg.maxHeight
    /\ frLast.result.i = frCfg.nLegacy - 1
    /\ frPrev.result.status = "ok"
    /\ frPrev.result.i = 0

\* C24: on main and test Blossom activates strictly after the Ycash fork, so
\* at no height is Blossom active while the fork is not, and a pre-fork
\* lookup never rescales its height; neither does regtest as constructed; a
\* pre-fork lookup with Blossom active runs on a schedule that
\* UpdateNetworkUpgradeParameters changed
C24_NoRescalingOnMainTest ==
    /\ \A cfg \in {MainFR, TestNetFR} :
          /\ cfg.upgrades[UPGRADE_YCASH].nActivationHeight >= 0
          /\ cfg.upgrades[UPGRADE_BLOSSOM].nActivationHeight >
                cfg.upgrades[UPGRADE_YCASH].nActivationHeight
    /\ \A net \in {"main", "test"} : \A h \in CheckHeights(net) :
          ~NetworkUpgradeActive(ConstructedUpgrades[net], h, UPGRADE_YCASH) =>
              ~NetworkUpgradeActive(ConstructedUpgrades[net], h, UPGRADE_BLOSSOM)
    /\ \A lookup \in {frPrev, frLast} :
          /\ (frCfg \in NetworkConfigs /\ PreFork(lookup)) =>
                /\ ~BlossomActiveAt(lookup)
                /\ lookup.result.nHeight = lookup.nHeight
          /\ (PreFork(lookup) /\ BlossomActiveAt(lookup)) =>
                /\ frCfg \notin NetworkConfigs
                /\ frCfg.upgrades[UPGRADE_BLOSSOM] # RegTestUpgrades[UPGRADE_BLOSSOM]

\* C24 witness: the test network looked up at the Blossom activation height,
\* which is post-fork, and then at the last height before the fork, where
\* the height is used as it is
C24_Witness ==
    /\ frCfg = TestNetFR
    /\ PostFork(frPrev)
    /\ BlossomActiveAt(frPrev)
    /\ PreFork(frLast)
    /\ frLast.nHeight = TestNetFR.upgrades[UPGRADE_YCASH].nActivationHeight - 1
    /\ frLast.result.status = "ok"
    /\ frLast.result.nHeight = frLast.nHeight

\* C25: post-fork, height - forkActivationHeight is not negative, so the
\* index does not wrap and the successor list is indexed within
\* [0, successorListSize); no range assert applies, so every height at or
\* above the fork height resolves to an address
C25_YcashIndexInBounds ==
    LET f == frCfg.upgrades[UPGRADE_YCASH].nActivationHeight
    IN  \A lookup \in {frPrev, frLast} :
            /\ PostFork(lookup) =>
                  /\ lookup.nHeight - f >= 0
                  /\ lookup.result.status = "ok"
                  /\ lookup.result.i = (lookup.nHeight - f) \div 17917
                  /\ lookup.result.address.list = "ycash"
                  /\ lookup.result.address.pos \in 0 .. (frCfg.nYcash - 1)
            /\ (lookup # NoLookup /\ f # NO_ACTIVATION_HEIGHT /\ lookup.nHeight >= f) =>
                  /\ PostFork(lookup)
                  /\ lookup.result.status = "ok"

\* C25 witness: the fork height itself resolves to entry 0 and a height
\* more than one rotation later to an entry within the list, on a schedule
\* whose fork height is negative
C25_Witness ==
    /\ frCfg.upgrades[UPGRADE_YCASH].nActivationHeight = -2
    /\ frCfg.nYcash = 3
    /\ PostFork(frPrev)
    /\ frPrev.nHeight = -2
    /\ frPrev.result.address.pos = 0
    /\ PostFork(frLast)
    /\ frLast.result.i > frCfg.nYcash
    /\ frLast.result.status = "ok"
    /\ frLast.result.address.pos = frLast.result.i % 3

(***************************************************************************)
(* The mutators and the parameter sets they write (SpecSel).               *)
(***************************************************************************)
\* the schedule, funding streams, PoW fields and flags of main and test are
\* those their constructors set
MainTestAsConstructed ==
    \A net \in {"main", "test"} :
        /\ vUpgrades[net] = ConstructedUpgrades[net]
        /\ \A i \in DOMAIN vFundingStreams[net] :
              vFundingStreams[net][i] = NoFundingStream
        /\ pow[net] = ConstructedPow[net]
        /\ fZIP209Enabled[net] = ConstructedZIP209[net]
        /\ fCoinbaseMustBeShielded[net] = ConstructedCoinbaseMustBeShielded[net]

\* C26: whichever network is selected, a returning call of
\* UpdateNetworkUpgradeParameters, UpdateFundingStreamParameters or
\* UpdateRegtestPow stores its arguments in the regtest parameter set, and
\* after any sequence of calls main and test are as constructed
C26_MutatorsWriteRegtest ==
    [][/\ MainTestAsConstructed'
       /\ \A idx \in SelIdxInputs, h \in SelActHeights :
             (UpdateNetworkUpgradeParameters(idx, h) /\ ~aborted') =>
                 vUpgrades'["regtest"][idx].nActivationHeight = h
       /\ \A idx \in FundingStreamIdxInputs, fs \in FundingStreamInputs :
             (UpdateFundingStreamParameters(idx, fs) /\ ~aborted') =>
                 vFundingStreams'["regtest"][idx] = fs
       /\ \A p \in PowInputs :
             UpdateRegtestPow(p) => pow'["regtest"] = p
      ]_vars

\* C26 witness: main is selected, and the regtest schedule and PoW fields
\* have been rewritten
C26_Witness ==
    /\ pCurrentParams = "main"
    /\ ~aborted
    /\ vUpgrades["regtest"] # ConstructedUpgrades["regtest"]
    /\ pow["regtest"] \in PowInputs
    /\ pow["regtest"] # ConstructedPow["regtest"]
    /\ MainTestAsConstructed

\* heights at which an override is looked at: the first and the last height
\* of the Sprout, Overwinter and Sapling epochs of a constructed schedule
OverrideHeights(net) ==
    LET ow == ConstructedUpgrades[net][UPGRADE_OVERWINTER].nActivationHeight
        sap == ConstructedUpgrades[net][UPGRADE_SAPLING].nActivationHeight
        yc == ConstructedUpgrades[net][UPGRADE_YCASH].nActivationHeight
    IN  {0, ow - 1, ow, sap - 1, sap, yc - 1}

\* C27: a returning UpdateEquihashUpgradeParameters(idx, n, k) makes
\* EquihashN(h) = n and EquihashK(h) = k on main and on test at every height
\* whose epoch is idx, for n and k other than DEFAULT_PARAMS, and leaves the
\* results at heights of other epochs as they were; with the base index or
\* an index >= MAX_NETWORK_UPGRADES it aborts and stores nothing, so the base
\* entry is never written
C27_EquihashOverride ==
    [][/\ EquihashUpgradeInfo'[BASE_SPROUT] = EquihashUpgradeInfo[BASE_SPROUT]
       /\ \A idx \in SelEquihashIdxInputs, n \in EquihashNInputs, k \in EquihashKInputs :
             UpdateEquihashUpgradeParameters(idx, n, k) =>
                 IF idx = BASE_SPROUT \/ idx >= MAX_NETWORK_UPGRADES
                 THEN aborted' /\ EquihashUpgradeInfo' = EquihashUpgradeInfo
                 ELSE /\ ~aborted'
                      /\ \A net \in {"main", "test"} : \A h \in OverrideHeights(net) :
                            IF CurrentEpoch(h, vUpgrades[net]) = idx
                            THEN /\ n # DEFAULT_PARAMS => EquihashN(net, h)' = n
                                 /\ k # DEFAULT_PARAMS => EquihashK(net, h)' = k
                            ELSE /\ EquihashN(net, h)' = EquihashN(net, h)
                                 /\ EquihashK(net, h)' = EquihashK(net, h)
      ]_vars

\* C27 witness: Overwinter overridden with (96, 3) while regtest is selected:
\* main and test answer (96, 3) at their first Overwinter height and (200, 9)
\* at the height before it and at the first Sapling height
C27_Witness ==
    /\ ~aborted
    /\ pCurrentParams = "regtest"
    /\ EquihashUpgradeInfo[UPGRADE_OVERWINTER] = [N |-> 96, K |-> 3]
    /\ \A net \in {"main", "test"} :
          LET ow == ConstructedUpgrades[net][UPGRADE_OVERWINTER].nActivationHeight
              sap == ConstructedUpgrades[net][UPGRADE_SAPLING].nActivationHeight
          IN  /\ EquihashN(net, ow) = 96 /\ EquihashK(net, ow) = 3
              /\ EquihashN(net, ow - 1) = 200 /\ EquihashK(net, ow - 1) = 9
              /\ EquihashN(net, sap) = 200 /\ EquihashK(net, sap) = 9

(***************************************************************************)
(* Reads of (N, K) against an unlocked override (SpecConc).                *)
(***************************************************************************)
\* the pair a table entry stands for on a network other than regtest
ResolvedPair(net, entry) ==
    <<IF entry.N = DEFAULT_PARAMS THEN DefaultEquihash(net).nEquihashN ELSE entry.N,
      IF entry.K = DEFAULT_PARAMS THEN DefaultEquihash(net).nEquihashK ELSE entry.K>>

\* the pair a reader obtained from its two calls
ObservedPair(read) == <<read.n, read.k>>

\* C28: a reader of main takes N at its first call and K at its second, each
\* from the entry as it stands at that moment; when no store of
\* UpdateEquihashUpgradeParameters falls between the start of the first call
\* and the end of the second, the pair is the pair of one entry, the same
\* before and after the read
C28_ConsistentPairWithoutOverlap ==
    (lastRead.fn = "equihash" /\ lastRead.net # "regtest") =>
        /\ lastRead.n = ResolvedPair(lastRead.net, lastRead.start)[1]
        /\ lastRead.k = ResolvedPair(lastRead.net, lastRead.end)[2]
        /\ ~lastRead.overlap =>
              /\ lastRead.start = lastRead.end
              /\ ObservedPair(lastRead) = ResolvedPair(lastRead.net, lastRead.start)

\* C28 witness: an override ran between the two calls of a reader of main,
\* and the pair it obtained is neither the pair of the entry before the
\* override nor the pair of the entry after it
C28_Witness ==
    /\ lastRead.fn = "equihash"
    /\ lastRead.net = "main"
    /\ lastRead.overlap
    /\ writer.pc = "idle"
    /\ lastRead.end = EquihashUpgradeInfo[UPGRADE_OVERWINTER]
    /\ ObservedPair(lastRead) # ResolvedPair("main", lastRead.start)
    /\ ObservedPair(lastRead) # ResolvedPair("main", lastRead.end)

(***************************************************************************)
(* The regtest-only flags (SpecSel).                                       *)
(***************************************************************************)
\* C29: SelectParams changes fCoinbaseMustBeShielded or fZIP209Enabled only
\* when regtest is selected and the matching switch is on the command line,
\* and then it sets the flag of the regtest parameter set; selecting main or
\* test changes neither flag, and no step of the process clears a flag
C29_RegtestFlags ==
    [][/\ \A network \in ChainInputs :
             SelectParams(network) =>
                 /\ fCoinbaseMustBeShielded' # fCoinbaseMustBeShielded =>
                       /\ network = "regtest"
                       /\ "-regtestshieldcoinbase" \in mapArgs
                 /\ fZIP209Enabled' # fZIP209Enabled =>
                       /\ network = "regtest"
                       /\ "-developersetpoolsizezero" \in mapArgs
                 /\ (network = "regtest" /\ "-regtestshieldcoinbase" \in mapArgs) =>
                       fCoinbaseMustBeShielded'["regtest"]
                 /\ (network = "regtest" /\ "-developersetpoolsizezero" \in mapArgs) =>
                       fZIP209Enabled'["regtest"]
                 /\ \A net \in {"main", "test"} :
                       /\ fCoinbaseMustBeShielded'[net] = fCoinbaseMustBeShielded[net]
                       /\ fZIP209Enabled'[net] = fZIP209Enabled[net]
       /\ \A net \in Networks :
             /\ fCoinbaseMustBeShielded[net] => fCoinbaseMustBeShielded'[net]
             /\ fZIP209Enabled[net] => fZIP209Enabled'[net]
      ]_vars

\* C29 witness: regtest was selected with both switches on the command line
\* and main after it: both regtest flags are still set
C29_Witness ==
    /\ mapArgs = {"-regtestshieldcoinbase", "-developersetpoolsizezero"}
    /\ lastOp = [op |-> "SelectParams", chain |-> "main",
                 outcome |-> "ok", ret |-> "main"]
    /\ pCurrentParams = "main"
    /\ fCoinbaseMustBeShielded["regtest"]
    /\ fZIP209Enabled["regtest"]
    /\ ~ConstructedZIP209["regtest"]
    /\ ~ConstructedCoinbaseMustBeShielded["regtest"]

(***************************************************************************)
(* The index accessors (SpecFR).                                           *)
(***************************************************************************)
\* C30: GetZcashFoundersRewardAddressAtIndex(i) and
\* GetYcashFoundersRewardAddressAtIndex(i) return exactly when 0 <= i < size
\* of their list and abort otherwise, and an address returned by
\* GetFoundersRewardAddressAtHeight is what the legacy accessor returns for
\* the index used pre-fork, or what the successor accessor returns for the
\* index modulo the list size post-fork
C30_AccessorsCoverLookups ==
    /\ frIndex # NoIndexLookup =>
          LET size == IF frIndex.fn = "zcash" THEN frCfg.nLegacy ELSE frCfg.nYcash
          IN  /\ frIndex.result.status = "ok" <=> (0 <= frIndex.i /\ frIndex.i < size)
              /\ frIndex.result.status # "ok" => frIndex.result.status = "abort"
              /\ frIndex.result.status = "ok" =>
                    frIndex.result.address =
                        [format |-> "yec",
                         type |-> IF frIndex.fn = "zcash" THEN frCfg.legacyType
                                  ELSE frCfg.ycashType,
                         list |-> IF frIndex.fn = "zcash" THEN "legacy" ELSE "ycash",
                         pos |-> frIndex.i]
    /\ \A lookup \in {frPrev, frLast} :
          (lookup # NoLookup /\ lookup.result.status = "ok") =>
              IF PreFork(lookup)
              THEN /\ lookup.result.i \in 0 .. (frCfg.nLegacy - 1)
                   /\ GetZcashFoundersRewardAddressAtIndex(frCfg, lookup.result.i) =
                         [status |-> "ok", address |-> lookup.result.address]
              ELSE /\ GetYcashFoundersRewardAddressAtIndex(
                           frCfg, lookup.result.i % frCfg.nYcash) =
                         [status |-> "ok", address |-> lookup.result.address]

\* C30 witness: a pre-fork lookup returned the second legacy entry, and the
\* legacy accessor called with index 1 returned the same address
C30_Witness ==
    /\ LegacyReturned(frLast)
    /\ frLast.result.i = 1
    /\ frIndex.fn = "zcash"
    /\ frIndex.i = 1
    /\ frIndex.result.status = "ok"
    /\ frIndex.result.address = frLast.result.address

====
